---- MODULE Spec2Model ----
(***************************************************************************)
(* Verification model of src/src/cfd_bot/core/var_calculator.py            *)
(* (class VaRCalculator) and src/src/cfd_bot/core/drawdown_manager.py      *)
(* (class DrawdownManager).                                                *)
(*                                                                         *)
(* Floating-point values are modelled as exact rationals [n, d] in lowest  *)
(* terms (d > 0); NaN is 0/0 and +inf is 1/0, and every comparison with a  *)
(* NaN is false, as in IEEE arithmetic.  Square roots and the quantile     *)
(* functions of scipy/numpy are fixed-point values (see Sqrt, NormPpf,     *)
(* TPpf, SeededNormalQuantile).  The descriptive statistics skewness and   *)
(* kurtosis of a result feed no other field and are not carried.           *)
(***************************************************************************)
EXTENDS Integers, Sequences, FiniteSets, TLC

VARIABLES
    portfolio_value,   \* self.portfolio_value of the VaRCalculator
    returns,           \* the caller's return series (hundredths, see RetScale)
    assets_returns,    \* the caller's portfolio: a dict of return series
    var_estimates,     \* the caller's series of prior VaR estimates
    last,              \* the latest call and its outcome
    rng,               \* numpy's process-wide generator (see SeedPosition)
    threads,           \* the estimator call each thread is in the middle of
    earlier,           \* the caller's note of its first Monte Carlo call
    dm,                \* the DrawdownManager instance
    now                \* the wall clock datetime.now(), in hours

\* what the caller holds; no operation of the calculator changes it
inputs == <<portfolio_value, returns, assets_returns, var_estimates>>

\* what a sequential call of the calculator leaves alone besides the
\* generator and the caller's note
calc_frame == <<inputs, threads, dm, now>>

vars == <<inputs, last, rng, threads, earlier, dm, now>>

-----------------------------------------------------------------------------
(* Bounds of the model                                                     *)

MaxLen == 3                      \* longest enumerated return series
RetVals == {-5, -3, 0, 1, 2}     \* enumerated returns, in 1/RetScale
RetScale == 100                  \* a return r stands for r / 100

-----------------------------------------------------------------------------
(* Rational arithmetic standing for Python/numpy floats                    *)

Abs(x) == IF x < 0 THEN -x ELSE x

RECURSIVE GCD(_, _)
GCD(a, b) == IF b = 0 THEN a ELSE GCD(b, a % b)

NaN == [n |-> 0, d |-> 0]
Inf == [n |-> 1, d |-> 0]
IsFinite(a) == a.d # 0
IsNaN(a) == a.d = 0 /\ a.n = 0

Rat(num, den) ==
    LET s == IF den < 0 THEN -1 ELSE 1
        g == GCD(Abs(num), Abs(den))
    IN  [n |-> (s * num) \div g, d |-> (s * den) \div g]

Zero == Rat(0, 1)
One == Rat(1, 1)

RAdd(a, b) ==
    IF ~IsFinite(a) \/ ~IsFinite(b) THEN NaN
    ELSE LET g == GCD(a.d, b.d)
         IN  Rat(a.n * (b.d \div g) + b.n * (a.d \div g), (a.d \div g) * b.d)

RNeg(a) == IF IsFinite(a) THEN [n |-> -a.n, d |-> a.d] ELSE NaN
RSub(a, b) == RAdd(a, RNeg(b))

RMul(a, b) ==
    IF ~IsFinite(a) \/ ~IsFinite(b) THEN NaN
    ELSE LET g1 == GCD(Abs(a.n), b.d)
             g2 == GCD(Abs(b.n), a.d)
         IN  Rat((a.n \div g1) * (b.n \div g2), (a.d \div g2) * (b.d \div g1))

\* numpy float division: x / 0 is nan for x = 0 (and a non-finite operand)
RDiv(a, b) ==
    IF ~IsFinite(a) \/ ~IsFinite(b) THEN NaN
    ELSE IF b.n = 0 THEN (IF a.n = 0 THEN NaN ELSE Inf)
    ELSE RMul(a, Rat(b.d, b.n))

\* (a / b) * 100; the exact value, multiplied first to keep the terms small
PercentOf(a, b) == RDiv(RMul(a, Rat(100, 1)), b)

RAbs(a) == IF IsFinite(a) THEN [n |-> Abs(a.n), d |-> a.d] ELSE a

RLe(a, b) == IsFinite(a) /\ IsFinite(b) /\ RSub(b, a).n >= 0
RLt(a, b) == IsFinite(a) /\ IsFinite(b) /\ RSub(b, a).n > 0
RGe(a, b) == RLe(b, a)
RGt(a, b) == RLt(b, a)
REq(a, b) == IsFinite(a) /\ IsFinite(b) /\ a = b

RFloor(a) == a.n \div a.d

RECURSIVE RSum(_)
RSum(s) == IF s = <<>> THEN Zero ELSE RAdd(s[1], RSum(Tail(s)))

\* np.array(returns): the float values of a series given in hundredths
AsArray(rs) == [i \in DOMAIN rs |-> Rat(rs[i], RetScale)]

-----------------------------------------------------------------------------
(* numpy helpers                                                           *)

RECURSIVE Insert(_, _)
Insert(x, s) ==
    IF s = <<>> THEN <<x>>
    ELSE IF RLe(x, s[1]) THEN <<x>> \o s
    ELSE <<s[1]>> \o Insert(x, Tail(s))

RECURSIVE Sort(_)
Sort(s) == IF s = <<>> THEN <<>> ELSE Insert(s[1], Sort(Tail(s)))

\* numpy's _lerp(a, b, t): a + (b - a) * t, computed from b when t >= 0.5
Lerp(a, b, t) ==
    LET diff == RSub(b, a)
    IN  IF RGe(t, Rat(1, 2)) THEN RSub(b, RMul(diff, RSub(One, t)))
        ELSE RAdd(a, RMul(diff, t))

\* a percentile that takes the order statistic below the position and does
\* not interpolate
Percentile_Lower(arr, pct) ==
    LET sorted == Sort(arr)
        virtual_index == RMul(Rat(Len(arr) - 1, 1), RDiv(pct, Rat(100, 1)))
    IN  sorted[RFloor(virtual_index) + 1]

\* np.percentile(arr, pct), method "linear", for 0 <= pct <= 100 and a
\* non-empty arr.  Indices are 0-based in numpy, 1-based here.
Percentile(arr, pct) ==
    LET sorted == Sort(arr)
        count == Len(arr)
        quantile == RDiv(pct, Rat(100, 1))
        virtual_index == RMul(Rat(count - 1, 1), quantile)
        previous_index == RFloor(virtual_index)
        next_index == IF previous_index + 1 > count - 1 THEN count - 1
                      ELSE previous_index + 1
        gamma == RSub(virtual_index, Rat(previous_index, 1))
    IN  Lerp(sorted[previous_index + 1], sorted[next_index + 1], gamma)

\* The virtual index (count - 1) * (pct / 100) of np.percentile in double
\* precision, for pct = (1 - confidence_level) * 100 as the estimators
\* compute it.  (1 - 0.9) * 100 evaluates to 9.999999999999998, and where
\* the exact index is a whole number k >= 1 the computed index is k minus
\* this many units of 2^-52 (series of up to 101 values).  At the other
\* confidence levels the computed index is never below a whole exact
\* index; the result is 0 there.
IndexShortfall(count, confidence_level) ==
    IF \/ confidence_level # Rat(900, 1000)
       \/ count < 11 \/ count > 101
       \/ (count - 1) % 10 # 0
    THEN 0
    ELSE LET k == (count - 1) \div 10
         IN  IF k <= 2 THEN k ELSE IF k <= 5 THEN 4 ELSE 8

\* the largest power of two not above x, for x > 0, searched from p
RECURSIVE PowerOfTwoBelow(_, _)
PowerOfTwoBelow(x, p) ==
    IF RGt(p, x) THEN PowerOfTwoBelow(x, RDiv(p, Rat(2, 1)))
    ELSE IF RLe(RMul(p, Rat(2, 1)), x) THEN PowerOfTwoBelow(x, RMul(p, Rat(2, 1)))
    ELSE p

\* half the distance, in units of 2^-52, from the double b to the next
\* double in the direction of -infinity
HalfStepDown(b) ==
    IF RGt(b, Zero) /\ PowerOfTwoBelow(b, One) = b
    THEN RDiv(b, Rat(4, 1))
    ELSE RDiv(PowerOfTwoBelow(RAbs(b), One), Rat(2, 1))

\* _lerp(a, b, t) with t = 1 - shortfall * 2^-52 in double precision gives
\* a value below b: b - (b - a) * (1 - t) is not rounded back to b
LerpBelow(a, b, shortfall) ==
    /\ shortfall > 0
    /\ RLt(a, b)
    /\ \/ b = Zero
       \/ RGt(RMul(Rat(shortfall, 1), RSub(b, a)), HalfStepDown(b))

\* the largest value of arr that is not above np.percentile(arr, pct) as
\* computed in double precision, given var_return, the percentile in exact
\* arithmetic: where the computed index falls short of a whole number and
\* the interpolation stays below the order statistic there, the order
\* statistic before it
MaskBound(arr, confidence_level, var_return) ==
    LET sorted == Sort(arr)
        shortfall == IndexShortfall(Len(arr), confidence_level)
        k == (Len(arr) - 1) \div 10
    IN  IF shortfall = 0 THEN var_return
        ELSE IF LerpBelow(sorted[k], sorted[k + 1], shortfall) THEN sorted[k]
        ELSE var_return

\* np.mean; nan for an empty array
Mean(arr) == IF Len(arr) = 0 THEN NaN ELSE RDiv(RSum(arr), Rat(Len(arr), 1))

\* floor(p * 10^digits / q) for 0 <= p < q, by long division
RECURSIVE LongDiv(_, _, _, _)
LongDiv(rem, q, digits, acc) ==
    IF digits = 0 THEN acc
    ELSE LongDiv((rem * 10) % q, q, digits - 1, acc * 10 + ((rem * 10) \div q))

\* floor(sqrt(m)) by bisection, lo^2 <= m < hi^2
RECURSIVE ISqrtIn(_, _, _)
ISqrtIn(m, lo, hi) ==
    IF hi - lo <= 1 THEN lo
    ELSE LET mid == (lo + hi) \div 2
         IN  IF mid * mid <= m THEN ISqrtIn(m, mid, hi) ELSE ISqrtIn(m, lo, mid)

\* np.sqrt for 0 <= v < 1/5, rounded down to five decimals; nan for nan
Sqrt(v) ==
    IF ~IsFinite(v) THEN NaN
    ELSE IF v.n = 0 THEN Zero
    ELSE Rat(ISqrtIn(LongDiv(v.n, v.d, 10, 0), 0, 46341), 100000)

\* np.std: population standard deviation
Std(arr) ==
    LET m == Mean(arr)
        sq == [i \in DOMAIN arr |-> RMul(RSub(arr[i], m), RSub(arr[i], m))]
    IN  Sqrt(Mean(sq))

\* a tail that leaves out the values equal to the bound
AtMost_Strict(arr, bound) ==
    LET keep(x) == RLt(x, bound) IN SelectSeq(arr, keep)

\* arr[arr <= bound]
AtMost(arr, bound) ==
    LET keep(x) == RLe(x, bound) IN SelectSeq(arr, keep)

\* Optional[float]: <<>> is None, <<v>> a value
None == <<>>
Some(v) == <<v>>

\* Python's "x or dflt" for an Optional[float] x: None and 0 are falsy
OrElse(x, dflt) ==
    IF x = None THEN dflt ELSE IF x[1].n = 0 /\ x[1].d # 0 THEN dflt ELSE x[1]

ValueError == [status |-> "ValueError"]

-----------------------------------------------------------------------------
(* Inputs                                                                  *)

DefaultPortfolioValue == 1000000

\* confidence levels of the ConfidenceLevel enumeration
ConfidenceLevels == {Rat(900, 1000), Rat(950, 1000), Rat(990, 1000), Rat(999, 1000)}

\* the sample series of the unit tests (setUp), in hundredths
SampleReturns == <<-5, -3, -1, 1, 2, 3, -2, 1, -1, 2>>

\* a series of eleven returns, whose 10th percentile position is the whole
\* number 1, and one whose values around that position are 0.04 and 0.05,
\* in hundredths
ElevenReturns ==
    {<<-5, -3, 0, 1, 2, 1, 0, -3, 2, 1, 0>>,
     <<4, 5, 6, 6, 7, 7, 8, 8, 9, 9, 9>>}

SeqsUpTo(S, k) == UNION {[1..m -> S] : m \in 0..k}

\* portfolio_value arguments a caller passes: omitted, 0, or a value
PortfolioValueArgs == {None, Some(Zero), Some(Rat(500000, 1))}

-----------------------------------------------------------------------------
(* calculate_historical_var                                                *)

HistoricalVar(rets, confidence_level, pv_arg, self_pv) ==
    IF Len(rets) = 0 THEN ValueError
    ELSE
    LET portfolio_val == OrElse(pv_arg, self_pv)
        volatility == Std(rets)
        percentile == RMul(RSub(One, confidence_level), Rat(100, 1))
        var_return == Percentile(rets, percentile)
        var_value == RAbs(RMul(var_return, portfolio_val))
        var_percentage == RMul(RAbs(var_return), Rat(100, 1))
        tail_returns == AtMost(rets, MaskBound(rets, confidence_level, var_return))
        has_tail == Len(tail_returns) > 0
        cvar_return == IF has_tail THEN Mean(tail_returns) ELSE var_return
        cvar_value == IF has_tail THEN RAbs(RMul(cvar_return, portfolio_val))
                      ELSE var_value
        cvar_percentage == IF has_tail THEN RMul(RAbs(cvar_return), Rat(100, 1))
                           ELSE var_percentage
        sorted == Sort(rets)
    IN  [status |-> "ok",
         method |-> "Historical VaR",
         confidence_level |-> confidence_level,
         var_value |-> var_value,
         var_percentage |-> var_percentage,
         cvar_value |-> cvar_value,
         cvar_percentage |-> cvar_percentage,
         expected_shortfall |-> cvar_value,
         portfolio_value |-> portfolio_val,
         data_points |-> Len(rets),
         volatility |-> volatility,
         additional_stats |->
            [min_return |-> sorted[1],
             max_return |-> sorted[Len(sorted)],
             mean_return |-> Mean(rets),
             median_return |-> Percentile(rets, Rat(50, 1)),
             percentile_used |-> percentile,
             tail_observations |-> Len(tail_returns)]]

NoCall == [op |-> "none"]

calculate_historical_var(confidence_level, pv_arg) ==
    /\ last' = [op |-> "calculate_historical_var",
                confidence_level |-> confidence_level,
                portfolio_value |-> pv_arg,
                result |-> HistoricalVar(AsArray(returns), confidence_level,
                                         pv_arg, portfolio_value)]
    /\ UNCHANGED <<calc_frame, rng>>

-----------------------------------------------------------------------------
(* The historical estimator on its own                                     *)

\* The process-wide generator is represented by the number of normal
\* variates drawn from it since np.random.seed(42); SeedPosition is its
\* state right after seeding.
SeedPosition == 0

\* VaRCalculator() with the default portfolio value, no call made yet, in
\* a process that runs no other thread, has constructed no DrawdownManager
\* and whose generator earlier code has left freshly seeded
TypicalInit ==
    /\ portfolio_value = Rat(DefaultPortfolioValue, 1)
    /\ last = NoCall
    /\ rng = SeedPosition
    /\ threads = <<>>
    /\ earlier = None
    /\ dm = None
    /\ now = 0

InitHist ==
    /\ TypicalInit
    /\ assets_returns = <<>>
    /\ var_estimates = <<>>
    /\ returns \in SeqsUpTo(RetVals, MaxLen) \cup {SampleReturns} \cup ElevenReturns

NextHist ==
    /\ \E c \in ConfidenceLevels, pv \in PortfolioValueArgs :
          calculate_historical_var(c, pv)
    /\ UNCHANGED earlier

SpecHist == InitHist /\ [][NextHist]_vars

-----------------------------------------------------------------------------
(* scipy.stats quantiles, in fixed point (three decimals)                  *)

\* a confidence level in thousandths
Permille(c) == (c.n * 1000) \div c.d

\* norm.ppf(1 - confidence_level)
NormPpf(c) ==
    CASE Permille(c) = 900 -> Rat(-1282, 1000)
      [] Permille(c) = 950 -> Rat(-1645, 1000)
      [] Permille(c) = 990 -> Rat(-2326, 1000)
      [] Permille(c) = 999 -> Rat(-3090, 1000)

\* norm.pdf(norm.ppf(1 - confidence_level)) / (1 - confidence_level)
NormTailFactor(c) ==
    CASE Permille(c) = 900 -> Rat(1755, 1000)
      [] Permille(c) = 950 -> Rat(2063, 1000)
      [] Permille(c) = 990 -> Rat(2665, 1000)
      [] Permille(c) = 999 -> Rat(3367, 1000)

TTable ==
    [c \in {900, 950, 990, 999} |->
        CASE c = 900 -> <<Rat(-3078, 1000), Rat(-1886, 1000), Rat(-1638, 1000),
                          Rat(-1533, 1000), Rat(-1476, 1000), Rat(-1440, 1000),
                          Rat(-1415, 1000), Rat(-1397, 1000), Rat(-1383, 1000)>>
          [] c = 950 -> <<Rat(-6314, 1000), Rat(-2920, 1000), Rat(-2353, 1000),
                          Rat(-2132, 1000), Rat(-2015, 1000), Rat(-1943, 1000),
                          Rat(-1895, 1000), Rat(-1860, 1000), Rat(-1833, 1000)>>
          [] c = 990 -> <<Rat(-3182, 100), Rat(-6965, 1000), Rat(-4541, 1000),
                          Rat(-3747, 1000), Rat(-3365, 1000), Rat(-3143, 1000),
                          Rat(-2998, 1000), Rat(-2896, 1000), Rat(-2821, 1000)>>
          [] c = 999 -> <<Rat(-3183, 10), Rat(-2233, 100), Rat(-1021, 100),
                          Rat(-7173, 1000), Rat(-5893, 1000), Rat(-5208, 1000),
                          Rat(-4785, 1000), Rat(-4501, 1000), Rat(-4297, 1000)>>]

\* t.ppf(1 - confidence_level, df), df = 1..9; nan when df <= 0 (scipy
\* returns nan for arguments outside the distribution's domain)
TPpf(c, df) == IF df <= 0 THEN NaN ELSE TTable[Permille(c)][df]

-----------------------------------------------------------------------------
(* calculate_parametric_var                                                *)

Distributions == {"normal", "t", "lognormal"}

ParametricVar(rets, confidence_level, distribution, pv_arg, self_pv) ==
    IF Len(rets) = 0 THEN ValueError
    ELSE IF distribution \notin {"normal", "t"} THEN ValueError
    ELSE
    LET portfolio_val == OrElse(pv_arg, self_pv)
        mean_return == Mean(rets)
        volatility == Std(rets)
        z_score == NormPpf(confidence_level)
        df == Len(rets) - 1
        t_score == TPpf(confidence_level, df)
        var_return == IF distribution = "normal"
                      THEN RAdd(mean_return, RMul(z_score, volatility))
                      ELSE RAdd(mean_return, RMul(t_score, volatility))
        var_value == RAbs(RMul(var_return, portfolio_val))
        var_percentage == RMul(RAbs(var_return), Rat(100, 1))
        cvar_return == IF distribution = "normal"
                       THEN RSub(mean_return,
                                 RMul(volatility, NormTailFactor(confidence_level)))
                       ELSE RMul(var_return, Rat(12, 10))
        cvar_value == RAbs(RMul(cvar_return, portfolio_val))
        cvar_percentage == RMul(RAbs(cvar_return), Rat(100, 1))
    IN  [status |-> "ok",
         method |-> IF distribution = "normal" THEN "Parametric VaR (Normal)"
                    ELSE "Parametric VaR (T)",
         confidence_level |-> confidence_level,
         var_value |-> var_value,
         var_percentage |-> var_percentage,
         cvar_value |-> cvar_value,
         cvar_percentage |-> cvar_percentage,
         expected_shortfall |-> cvar_value,
         portfolio_value |-> portfolio_val,
         data_points |-> Len(rets),
         volatility |-> volatility,
         additional_stats |->
            [distribution |-> distribution,
             mean_return |-> mean_return,
             z_score |-> IF distribution = "normal" THEN Some(z_score) ELSE None,
             t_score |-> IF distribution = "t" THEN Some(t_score) ELSE None,
             degrees_of_freedom |-> IF distribution = "t" THEN Some(df) ELSE None]]

calculate_parametric_var(confidence_level, distribution, pv_arg) ==
    /\ last' = [op |-> "calculate_parametric_var",
                confidence_level |-> confidence_level,
                distribution |-> distribution,
                portfolio_value |-> pv_arg,
                result |-> ParametricVar(AsArray(returns), confidence_level,
                                         distribution, pv_arg, portfolio_value)]
    /\ UNCHANGED <<calc_frame, rng>>

-----------------------------------------------------------------------------
(* calculate_monte_carlo_var                                               *)

\* np.random.seed(42); np.random.normal(mean, std, simulations) draws
\* mean + std * z[i] for the fixed standard-normal sample z of that seed.
\* The operators below are the statistics of z for the two simulation
\* counts the program uses (10000 by default, 5000 from the hybrid method).
SimulationCounts == {10000, 5000}

\* np.percentile(z, (1 - confidence_level) * 100)
SeededNormalQuantile(simulations, c) ==
    IF simulations = 10000
    THEN CASE Permille(c) = 900 -> Rat(-1292, 1000)
           [] Permille(c) = 950 -> Rat(-1655, 1000)
           [] Permille(c) = 990 -> Rat(-2321, 1000)
           [] Permille(c) = 999 -> Rat(-3045, 1000)
    ELSE CASE Permille(c) = 900 -> Rat(-1269, 1000)
           [] Permille(c) = 950 -> Rat(-1614, 1000)
           [] Permille(c) = 990 -> Rat(-2363, 1000)
           [] Permille(c) = 999 -> Rat(-2991, 1000)

\* np.mean(z[z <= quantile])
SeededNormalTailMean(simulations, c) ==
    IF simulations = 10000
    THEN CASE Permille(c) = 900 -> Rat(-1764, 1000)
           [] Permille(c) = 950 -> Rat(-2075, 1000)
           [] Permille(c) = 990 -> Rat(-2697, 1000)
           [] Permille(c) = 999 -> Rat(-3424, 1000)
    ELSE CASE Permille(c) = 900 -> Rat(-1752, 1000)
           [] Permille(c) = 950 -> Rat(-2070, 1000)
           [] Permille(c) = 990 -> Rat(-2695, 1000)
           [] Permille(c) = 999 -> Rat(-3123, 1000)

\* len(z[z <= quantile])
SeededNormalTailCount(simulations, c) ==
    IF simulations = 10000
    THEN CASE Permille(c) = 900 -> 1000
           [] Permille(c) = 950 -> 500
           [] Permille(c) = 990 -> 100
           [] Permille(c) = 999 -> 10
    ELSE CASE Permille(c) = 900 -> 500
           [] Permille(c) = 950 -> 250
           [] Permille(c) = 990 -> 50
           [] Permille(c) = 999 -> 5

\* np.mean(z) and np.std(z)
SeededNormalMean(simulations) ==
    IF simulations = 10000 THEN Rat(-2, 1000) ELSE Rat(6, 1000)
SeededNormalStd(simulations) ==
    IF simulations = 10000 THEN Rat(1003, 1000) ELSE Rat(996, 1000)

\* the generator states a process may be in when the calculator is first
\* used
GeneratorStates == {0, 5000}

\* the longest stretch of the seeded stream the tables below cover
StreamLimit == 10000

\* np.random.seed(42) leaving the generator as it is
Seed_Keep(generator) == generator

\* np.random.seed(42)
Seed(generator) == SeedPosition

\* the statistics of the standard normal sample z drawn by
\* np.random.normal(0, 1, simulations) from the generator at position start:
\* np.percentile(z, (1 - c) * 100)
StreamNormalQuantile(start, simulations, c) ==
    IF start = SeedPosition THEN SeededNormalQuantile(simulations, c)
    ELSE IF start = 5000
    THEN IF simulations = 10000
         THEN CASE Permille(c) = 900 -> Rat(-1286, 1000)
                [] Permille(c) = 950 -> Rat(-1652, 1000)
                [] Permille(c) = 990 -> Rat(-2354, 1000)
                [] Permille(c) = 999 -> Rat(-3221, 1000)
         ELSE CASE Permille(c) = 900 -> Rat(-1316, 1000)
                [] Permille(c) = 950 -> Rat(-1688, 1000)
                [] Permille(c) = 990 -> Rat(-2304, 1000)
                [] Permille(c) = 999 -> Rat(-3221, 1000)
    ELSE IF simulations = 10000
         THEN CASE Permille(c) = 900 -> Rat(-1252, 1000)
                [] Permille(c) = 950 -> Rat(-1609, 1000)
                [] Permille(c) = 990 -> Rat(-2378, 1000)
                [] Permille(c) = 999 -> Rat(-3094, 1000)
         ELSE CASE Permille(c) = 900 -> Rat(-1265, 1000)
                [] Permille(c) = 950 -> Rat(-1618, 1000)
                [] Permille(c) = 990 -> Rat(-2369, 1000)
                [] Permille(c) = 999 -> Rat(-3083, 1000)

\* np.mean(z[z <= quantile])
StreamNormalTailMean(start, simulations, c) ==
    IF start = SeedPosition THEN SeededNormalTailMean(simulations, c)
    ELSE IF start = 5000
    THEN IF simulations = 10000
         THEN CASE Permille(c) = 900 -> Rat(-1763, 1000)
                [] Permille(c) = 950 -> Rat(-2080, 1000)
                [] Permille(c) = 990 -> Rat(-2717, 1000)
                [] Permille(c) = 999 -> Rat(-3480, 1000)
         ELSE CASE Permille(c) = 900 -> Rat(-1776, 1000)
                [] Permille(c) = 950 -> Rat(-2079, 1000)
                [] Permille(c) = 990 -> Rat(-2698, 1000)
                [] Permille(c) = 999 -> Rat(-3658, 1000)
    ELSE IF simulations = 10000
         THEN CASE Permille(c) = 900 -> Rat(-1747, 1000)
                [] Permille(c) = 950 -> Rat(-2074, 1000)
                [] Permille(c) = 990 -> Rat(-2730, 1000)
                [] Permille(c) = 999 -> Rat(-3398, 1000)
         ELSE CASE Permille(c) = 900 -> Rat(-1749, 1000)
                [] Permille(c) = 950 -> Rat(-2079, 1000)
                [] Permille(c) = 990 -> Rat(-2735, 1000)
                [] Permille(c) = 999 -> Rat(-3302, 1000)

\* np.mean(z) and np.std(z)
StreamNormalMean(start, simulations) ==
    IF start = SeedPosition THEN SeededNormalMean(simulations)
    ELSE IF start = 5000
    THEN IF simulations = 10000 THEN Zero ELSE Rat(-10, 1000)
    ELSE IF simulations = 10000 THEN Rat(14, 1000) ELSE Rat(11, 1000)
StreamNormalStd(start, simulations) ==
    IF start = SeedPosition THEN SeededNormalStd(simulations)
    ELSE IF start = 5000
    THEN IF simulations = 10000 THEN Rat(1005, 1000) ELSE Rat(1010, 1000)
    ELSE IF simulations = 10000 THEN Rat(1001, 1000) ELSE Rat(999, 1000)

\* np.mean of a series of equal values v in double precision: the sum of
\* three values of 0.05 or -0.05 is not a double, the mean misses v by one
\* unit in the last place and np.std is that unit, 2^-57, where it is 0 in
\* exact arithmetic (values of whole hundredths up to 0.05 in size, series
\* of up to five values)
MeanMissesValue(rets) ==
    /\ Len(rets) = 3
    /\ \A i \in DOMAIN rets : rets[i] = rets[1]
    /\ RAbs(rets[1]) = Rat(5, 100)

\* len(simulated_returns[simulated_returns <= var_return]) for the sample
\* mean + 2^-57 * z of such a series: the draws are mean plus a few
\* units in the last place, and the mask keeps those not above the
\* percentile
RoundedTailCount(start, simulations, c) ==
    IF start = SeedPosition
    THEN IF simulations = 10000
         THEN CASE Permille(c) = 900 -> 3094
                [] Permille(c) = 950 -> 678
                [] Permille(c) = 990 -> 678
                [] Permille(c) = 999 -> 66
         ELSE CASE Permille(c) = 900 -> 1540
                [] Permille(c) = 950 -> 332
                [] Permille(c) = 990 -> 332
                [] Permille(c) = 999 -> 36
    ELSE IF start = 5000
    THEN IF simulations = 10000
         THEN CASE Permille(c) = 900 -> 3095
                [] Permille(c) = 950 -> 661
                [] Permille(c) = 990 -> 661
                [] Permille(c) = 999 -> 64
         ELSE CASE Permille(c) = 900 -> 1554
                [] Permille(c) = 950 -> 346
                [] Permille(c) = 990 -> 346
                [] Permille(c) = 999 -> 30
    ELSE IF simulations = 10000
         THEN CASE Permille(c) = 900 -> 3075
                [] Permille(c) = 950 -> 634
                [] Permille(c) = 990 -> 634
                [] Permille(c) = 999 -> 71
         ELSE CASE Permille(c) = 900 -> 1541
                [] Permille(c) = 950 -> 315
                [] Permille(c) = 990 -> 315
                [] Permille(c) = 999 -> 34

\* the simulation and its evaluation, after the check of the input and the
\* seeding; start is the position the generator is in when the sample is
\* drawn
MonteCarloSimulate(rets, confidence_level, simulations, pv_arg, self_pv, start) ==
    LET portfolio_val == OrElse(pv_arg, self_pv)
        mean_return == Mean(rets)
        volatility == Std(rets)
        percentile == RMul(RSub(One, confidence_level), Rat(100, 1))
        \* percentile of mean + volatility * z; all draws equal mean_return
        \* when volatility = 0
        var_return == RAdd(mean_return,
                           RMul(volatility,
                                StreamNormalQuantile(start, simulations,
                                                     confidence_level)))
        var_value == RAbs(RMul(var_return, portfolio_val))
        var_percentage == RMul(RAbs(var_return), Rat(100, 1))
        tail_observations ==
            IF volatility.n = 0
            THEN IF MeanMissesValue(rets)
                 THEN RoundedTailCount(start, simulations, confidence_level)
                 ELSE simulations
            ELSE SeededNormalTailCount(simulations, confidence_level)
        cvar_return ==
            IF volatility.n = 0 THEN mean_return
            ELSE RAdd(mean_return,
                      RMul(volatility,
                           StreamNormalTailMean(start, simulations,
                                                confidence_level)))
        cvar_value == RAbs(RMul(cvar_return, portfolio_val))
        cvar_percentage == RMul(RAbs(cvar_return), Rat(100, 1))
    IN  [status |-> "ok",
         method |-> "Monte Carlo VaR",
         confidence_level |-> confidence_level,
         var_value |-> var_value,
         var_percentage |-> var_percentage,
         cvar_value |-> cvar_value,
         cvar_percentage |-> cvar_percentage,
         expected_shortfall |-> cvar_value,
         portfolio_value |-> portfolio_val,
         data_points |-> Len(rets),
         volatility |-> volatility,
         additional_stats |->
            [simulations |-> simulations,
             simulated_mean |-> RAdd(mean_return,
                                     RMul(volatility,
                                          StreamNormalMean(start, simulations))),
             simulated_std |->
                RMul(volatility, StreamNormalStd(start, simulations)),
             percentile_used |-> percentile,
             tail_observations |-> tail_observations]]

\* the estimator without the check of the input: the statistics of an empty
\* array are nan and so is every figure of the result
MonteCarloVar_Unchecked(rets, confidence_level, simulations, pv_arg, self_pv, generator) ==
    MonteCarloSimulate(rets, confidence_level, simulations, pv_arg, self_pv,
                       Seed(generator))

\* the call run without interruption on a process whose generator is in
\* state generator
MonteCarloVar(rets, confidence_level, simulations, pv_arg, self_pv, generator) ==
    IF Len(rets) = 0 THEN ValueError
    ELSE MonteCarloSimulate(rets, confidence_level, simulations, pv_arg,
                            self_pv, Seed(generator))

\* the generator after such a call: seeded and advanced by the sample, or
\* untouched when the call raised before seeding
GeneratorAfter(rets, simulations, generator) ==
    IF Len(rets) = 0 THEN generator ELSE Seed(generator) + simulations

calculate_monte_carlo_var(confidence_level, simulations, pv_arg) ==
    /\ last' = [op |-> "calculate_monte_carlo_var",
                confidence_level |-> confidence_level,
                simulations |-> simulations,
                portfolio_value |-> pv_arg,
                result |-> MonteCarloVar(AsArray(returns), confidence_level,
                                         simulations, pv_arg, portfolio_value,
                                         rng)]
    /\ rng' = GeneratorAfter(returns, simulations, rng)
    /\ UNCHANGED calc_frame

-----------------------------------------------------------------------------
(* calculate_hybrid_var                                                    *)

Weights(h, p, m) == [historical |-> h, parametric |-> p, monte_carlo |-> m]

DefaultHybridWeights == Weights(Rat(4, 10), Rat(3, 10), Rat(3, 10))

\* weight mappings a caller passes: omitted, or a mapping over the three
\* methods (normalised, unnormalised, all zero, with a negative weight)
HybridWeightArgs ==
    {None,
     Some(Weights(Rat(5, 10), Rat(3, 10), Rat(2, 10))),
     Some(Weights(One, One, One)),
     Some(Weights(Zero, Zero, Zero)),
     Some(Weights(Rat(-1, 1), Rat(3, 10), Rat(3, 10)))}

HybridSimulations == 5000

\* the weighted blend of the three estimates and the result built from it
HybridBlend(rets, confidence_level, weights, portfolio_val, hist_var, param_var, mc_var) ==
    LET hybrid_var_value ==
            RAdd(RAdd(RMul(weights.historical, hist_var.var_value),
                      RMul(weights.parametric, param_var.var_value)),
                 RMul(weights.monte_carlo, mc_var.var_value))
        hybrid_cvar_value ==
            RAdd(RAdd(RMul(weights.historical, hist_var.cvar_value),
                      RMul(weights.parametric, param_var.cvar_value)),
                 RMul(weights.monte_carlo, mc_var.cvar_value))
    IN  [status |-> "ok",
         method |-> "Hybrid VaR",
         confidence_level |-> confidence_level,
         var_value |-> hybrid_var_value,
         var_percentage |-> PercentOf(hybrid_var_value, portfolio_val),
         cvar_value |-> hybrid_cvar_value,
         cvar_percentage |-> PercentOf(hybrid_cvar_value, portfolio_val),
         expected_shortfall |-> hybrid_cvar_value,
         portfolio_value |-> portfolio_val,
         data_points |-> Len(rets),
         volatility |-> Std(rets),
         additional_stats |->
            [weights |-> weights,
             historical_var |-> hist_var.var_value,
             parametric_var |-> param_var.var_value,
             monte_carlo_var |-> mc_var.var_value,
             method_agreement |->
                [hist_param_diff |->
                    RAbs(RSub(hist_var.var_value, param_var.var_value)),
                 hist_mc_diff |->
                    RAbs(RSub(hist_var.var_value, mc_var.var_value)),
                 param_mc_diff |->
                    RAbs(RSub(param_var.var_value, mc_var.var_value))]]]

HybridVar(rets, confidence_level, weights_arg, pv_arg, self_pv, generator) ==
    IF Len(rets) = 0 THEN ValueError
    ELSE HybridBlend(
            rets, confidence_level,
            IF weights_arg = None THEN DefaultHybridWeights ELSE weights_arg[1],
            OrElse(pv_arg, self_pv),
            HistoricalVar(rets, confidence_level, pv_arg, self_pv),
            ParametricVar(rets, confidence_level, "normal", pv_arg, self_pv),
            MonteCarloVar(rets, confidence_level, HybridSimulations, pv_arg,
                          self_pv, generator))

calculate_hybrid_var(confidence_level, weights_arg, pv_arg) ==
    /\ last' = [op |-> "calculate_hybrid_var",
                confidence_level |-> confidence_level,
                weights |-> weights_arg,
                portfolio_value |-> pv_arg,
                result |-> HybridVar(AsArray(returns), confidence_level,
                                     weights_arg, pv_arg, portfolio_value,
                                     rng)]
    /\ rng' = GeneratorAfter(returns, HybridSimulations, rng)
    /\ UNCHANGED calc_frame

-----------------------------------------------------------------------------
(* The four single-asset estimators                                        *)

\* one estimator call on a freshly chosen series
InitEst ==
    /\ TypicalInit
    /\ assets_returns = <<>>
    /\ var_estimates = <<>>
    /\ returns \in SeqsUpTo(RetVals, MaxLen)

NextEst ==
    /\ last = NoCall
    /\ UNCHANGED earlier
    /\ \/ \E c \in ConfidenceLevels, pv \in PortfolioValueArgs :
             calculate_historical_var(c, pv)
       \/ \E c \in ConfidenceLevels, dist \in Distributions,
             pv \in PortfolioValueArgs :
             calculate_parametric_var(c, dist, pv)
       \/ \E c \in ConfidenceLevels, sims \in SimulationCounts,
             pv \in PortfolioValueArgs :
             calculate_monte_carlo_var(c, sims, pv)
       \/ \E c \in ConfidenceLevels, w \in HybridWeightArgs,
             pv \in PortfolioValueArgs :
             calculate_hybrid_var(c, w, pv)

SpecEst == InitEst /\ [][NextEst]_vars

-----------------------------------------------------------------------------
(* calculate_portfolio_var                                                 *)

MaxAssetLen == 2                 \* longest enumerated series of an asset
AssetRetVals == {-2, 0, 2}       \* enumerated asset returns, in 1/RetScale

\* a Python dict: its keys in insertion order, and the value of each key
Dict(keys, values) == [keys |-> keys, values |-> values]

\* list(assets_returns.keys()): every key, in insertion order
AssetNames(assets) == assets.keys

BaseMethods == {"historical", "parametric"}

\* the base estimator calculate_portfolio_var dispatches to
BaseVar(method, rets, confidence_level, pv_arg, self_pv) ==
    IF method = "historical"
    THEN HistoricalVar(rets, confidence_level, pv_arg, self_pv)
    ELSE ParametricVar(rets, confidence_level, "normal", pv_arg, self_pv)

\* exact square root of a rational in [0, 1] when it has one, else rounded
\* down to four decimals
SqrtUnit(v) ==
    LET rn == ISqrtIn(v.n, 0, 46341)
        rd == ISqrtIn(v.d, 0, 46341)
    IN  IF rn * rn = v.n /\ rd * rd = v.d THEN Rat(rn, rd)
        ELSE IF v.n >= v.d THEN One
        ELSE Rat(ISqrtIn(LongDiv(v.n, v.d, 8, 0), 0, 46341), 10000)

\* sum of (x[i] - mean x) * (y[i] - mean y)
CoMoment(x, y) ==
    LET mx == Mean(x)
        my == Mean(y)
    IN  RSum([i \in DOMAIN x |-> RMul(RSub(x[i], mx), RSub(y[i], my))])

\* the float standard deviation np.corrcoef divides by is 0: the row is
\* constant and its float mean is the value
StdIsZero(x) == CoMoment(x, x).n = 0 /\ ~MeanMissesValue(x)

\* one entry of np.corrcoef: Pearson correlation of two rows of equal
\* length; nan when the float standard deviation of a row is 0 (0 / 0).
\* A constant row whose float mean misses the value has deviations of one
\* unit in the last place from that mean, of the sign opposite to the
\* value: its correlation with such a row is 1 or -1, with a row that
\* varies it is 0 to sixteen decimals
Correlation(x, y) ==
    LET cxy == CoMoment(x, y)
        cxx == CoMoment(x, x)
        cyy == CoMoment(y, y)
    IN  IF StdIsZero(x) \/ StdIsZero(y) THEN NaN
        ELSE IF MeanMissesValue(x) /\ MeanMissesValue(y)
        THEN IF x[1] = y[1] THEN One ELSE RNeg(One)
        ELSE IF MeanMissesValue(x) \/ MeanMissesValue(y) THEN Zero
        ELSE LET r == SqrtUnit(RMul(RDiv(cxy, cxx), RDiv(cxy, cyy)))
             IN  IF cxy.n < 0 THEN RNeg(r) ELSE r

\* np.corrcoef(np.array(rows)).tolist() for rows of one common length
CorrCoef(rows) ==
    [i \in DOMAIN rows |-> [j \in DOMAIN rows |-> Correlation(rows[i], rows[j])]]

\* min(len(returns) for returns in assets_returns.values())
RECURSIVE MinOf(_)
MinOf(S) ==
    LET x == CHOOSE y \in S : TRUE
    IN  IF S = {x} THEN x
        ELSE LET m == MinOf(S \ {x}) IN IF x < m THEN x ELSE m

MinLength(assets) ==
    MinOf({Len(assets.values[a]) : a \in DOMAIN assets.values})

\* the weighted returns of the asset iterated last, in place of the sum
\* over the assets
PortfolioReturns_LastAsset(assets, weights) ==
    LET names == AssetNames(assets)
        a == names[Len(names)]
    IN  [i \in 1..MinLength(assets) |->
            RMul(weights[a], Rat(assets.values[a][i], RetScale))]

\* the weighted portfolio return of every period of the common window
PortfolioReturns(assets, weights) ==
    LET names == AssetNames(assets)
    IN  [i \in 1..MinLength(assets) |->
            RSum([k \in DOMAIN names |->
                    RMul(weights[names[k]],
                         Rat(assets.values[names[k]][i], RetScale))])]

\* np.array(returns_matrix) of rows of differing lengths is not a matrix:
\* numpy raises ValueError, older releases build an array of lists on which
\* np.corrcoef raises TypeError
RaggedArrayErrors == {"ValueError", "TypeError"}

IsRagged(assets) ==
    \E a, b \in DOMAIN assets.values :
        Len(assets.values[a]) # Len(assets.values[b])

\* the result dictionary built from the individual and the portfolio VaR
PortfolioResult(individual_vars, sum_individual_vars, portfolio_var, correlation_matrix, portfolio_volatility) ==
    [status |-> "ok",
     individual_vars |-> individual_vars,
     portfolio_var |-> portfolio_var,
     diversification_benefit |-> RSub(sum_individual_vars, portfolio_var),
     correlation_matrix |-> correlation_matrix,
     portfolio_volatility |-> portfolio_volatility]

\* the loop over the assets, from the k-th asset on: weights[asset] raises
\* KeyError for an asset without a weight, and the base estimator raises
\* ValueError; the first exception ends the loop
RECURSIVE AssetLoopError(_, _, _, _)
AssetLoopError(asset_names, weights, var_result, k) ==
    IF k > Len(asset_names) THEN None
    ELSE IF asset_names[k] \notin DOMAIN weights THEN Some("KeyError")
    ELSE IF var_result[asset_names[k]].status # "ok" THEN Some("ValueError")
    ELSE AssetLoopError(asset_names, weights, var_result, k + 1)

\* the steps after the loop over the assets: correlation matrix, portfolio
\* returns, portfolio VaR and diversification benefit
PortfolioCombine(assets, weights, confidence_level, method, portfolio_val, self_pv, ragged_error, var_result) ==
    IF AssetLoopError(AssetNames(assets), weights, var_result, 1) # None
    THEN [status |-> AssetLoopError(AssetNames(assets), weights, var_result, 1)[1]]
    ELSE IF IsRagged(assets) THEN [status |-> ragged_error]
    ELSE
    LET asset_names == AssetNames(assets)
        returns_matrix ==
            [k \in DOMAIN asset_names |-> AsArray(assets.values[asset_names[k]])]
        portfolio_returns == PortfolioReturns(assets, weights)
    IN  PortfolioResult(
            [a \in DOMAIN assets.values |-> var_result[a].var_value],
            RSum([k \in DOMAIN asset_names |->
                    var_result[asset_names[k]].var_value]),
            BaseVar(method, portfolio_returns, confidence_level,
                    Some(portfolio_val), self_pv).var_value,
            CorrCoef(returns_matrix),
            Std(portfolio_returns))

PortfolioVar(assets, weights, confidence_level, method, pv_arg, self_pv, ragged_error) ==
    IF Len(assets.keys) = 0 THEN ValueError
    ELSE PortfolioCombine(
            assets, weights, confidence_level, method,
            OrElse(pv_arg, self_pv), self_pv, ragged_error,
            [a \in DOMAIN assets.values \cap DOMAIN weights |->
                BaseVar(method, AsArray(assets.values[a]), confidence_level,
                        Some(RMul(OrElse(pv_arg, self_pv), weights[a])),
                        self_pv)])

calculate_portfolio_var(weights, confidence_level, method, pv_arg) ==
    \E ragged_error \in
            IF IsRagged(assets_returns) THEN RaggedArrayErrors
            ELSE {"ValueError"} :
        /\ last' = [op |-> "calculate_portfolio_var",
                    weights |-> weights,
                    confidence_level |-> confidence_level,
                    method |-> method,
                    portfolio_value |-> pv_arg,
                    result |-> PortfolioVar(assets_returns, weights,
                                            confidence_level, method, pv_arg,
                                            portfolio_value, ragged_error)]
        /\ UNCHANGED <<calc_frame, rng>>

\* weight mappings a caller passes, for two assets and for three
PortfolioWeights ==
    {[Asset1 |-> Rat(1, 2), Asset2 |-> Rat(1, 2)],
     [Asset1 |-> Rat(3, 10), Asset2 |-> Rat(7, 10)],
     [Asset1 |-> Zero, Asset2 |-> One],
     [Asset1 |-> Rat(1, 2), Asset2 |-> Rat(3, 10), Asset3 |-> Rat(1, 5)]}

PortfolioConfidenceLevels == {Rat(95, 100), Rat(99, 100)}

\* series of three periods: constant ones, among them -0.05 and 0.05, and
\* two that vary
ThreeDayReturns ==
    {<<-5, -5, -5>>, <<5, 5, 5>>, <<2, 2, 2>>, <<-2, 0, 2>>, <<2, 0, -2>>}

\* series of the assets of a portfolio of three
ThirdAssetReturns == {<<2, -2>>, <<-2, 2>>, <<0, 2>>, <<-2>>}

\* series of the dicts that name Asset2 first
ReversedReturns == ThreeDayReturns \cup {<<0, 0>>, <<-2, 2>>}

\* the dicts of two assets, in either insertion order
TwoAssets ==
    {Dict(<<"Asset1", "Asset2">>, values) :
        values \in [{"Asset1", "Asset2"} ->
                      SeqsUpTo(AssetRetVals, MaxAssetLen) \cup ThreeDayReturns]}
    \cup
    {Dict(<<"Asset2", "Asset1">>, values) :
        values \in [{"Asset1", "Asset2"} -> ReversedReturns]}

\* the dicts of three assets
ThreeAssets ==
    {Dict(<<"Asset1", "Asset2", "Asset3">>, values) :
        values \in [{"Asset1", "Asset2", "Asset3"} -> ThirdAssetReturns]}

\* one portfolio call on a freshly chosen portfolio: no asset, two or three
InitPortfolio ==
    /\ TypicalInit
    /\ returns = <<>>
    /\ var_estimates = <<>>
    /\ assets_returns \in {Dict(<<>>, <<>>)} \cup TwoAssets \cup ThreeAssets

NextPortfolio ==
    /\ last = NoCall
    /\ UNCHANGED earlier
    /\ \E w \in PortfolioWeights, c \in PortfolioConfidenceLevels,
          m \in BaseMethods, pv \in {None, Some(Rat(500000, 1))} :
          calculate_portfolio_var(w, c, m, pv)

SpecPortfolio == InitPortfolio /\ [][NextPortfolio]_vars

-----------------------------------------------------------------------------
(* validate_var_model                                                      *)

\* np.log of a positive integer whose prime factors are at most 37, in
\* ten-thousandths
LnPrime ==
    [p \in 2..37 |->
        CASE p = 2 -> 6931   [] p = 3 -> 10986  [] p = 5 -> 16094
          [] p = 7 -> 19459  [] p = 11 -> 23979 [] p = 13 -> 25649
          [] p = 17 -> 28332 [] p = 19 -> 29444 [] p = 23 -> 31355
          [] p = 29 -> 33673 [] p = 31 -> 34340 [] p = 37 -> 36109
          [] OTHER -> 0]

RECURSIVE LnNat(_, _)
LnNat(k, p) ==
    IF k = 1 THEN 0
    ELSE IF k % p = 0 THEN LnPrime[p] + LnNat(k \div p, p)
    ELSE LnNat(k, p + 1)

\* np.log(x) for a rational x > 0
Ln(x) == Rat(LnNat(x.n, 2) - LnNat(x.d, 2), 10000)

\* 1 - stats.chi2.cdf(z * z, 1) = erfc(z / sqrt(2)) for z = 0, 0.01, ..., 5,
\* in millionths
Chi2SfTable ==
    <<
      1000000, 992021, 984043, 976067, 968093, 960122, 952156, 944194,
      936237, 928287, 920344, 912409, 904483, 896566, 888660, 880765,
      872881, 865010, 857153, 849309, 841481, 833668, 825871, 818092,
      810330, 802587, 794864, 787160, 779478, 771816, 764177, 756561,
      748968, 741400, 733857, 726339, 718847, 711382, 703945, 696537,
      689157, 681806, 674485, 667196, 659937, 652710, 645516, 638355,
      631227, 624134, 617075, 610051, 603064, 596112, 589197, 582319,
      575479, 568678, 561915, 555191, 548506, 541862, 535258, 528695,
      522173, 515692, 509254, 502858, 496504, 490194, 483927, 477704,
      471525, 465390, 459300, 453255, 447255, 441300, 435391, 429528,
      423711, 417940, 412216, 406539, 400908, 395325, 389789, 384300,
      378859, 373466, 368120, 362823, 357573, 352371, 347218, 342112,
      337055, 332046, 327086, 322174, 317311, 312495, 307728, 303010,
      298340, 293718, 289145, 284619, 280142, 275713, 271332, 266999,
      262714, 258476, 254286, 250144, 246049, 242001, 238000, 234046,
      230139, 226279, 222465, 218697, 214975, 211300, 207669, 204085,
      200545, 197051, 193601, 190196, 186835, 183518, 180245, 177016,
      173830, 170687, 167587, 164529, 161513, 158540, 155608, 152717,
      149867, 147059, 144290, 141562, 138873, 136224, 133614, 131043,
      128511, 126017, 123560, 121142, 118760, 116415, 114107, 111835,
      109599, 107398, 105232, 103101, 101005, 98943, 96914, 94919,
      92957, 91028, 89131, 87266, 85432, 83630, 81859, 80118,
      78408, 76727, 75076, 73454, 71861, 70296, 68759, 67250,
      65768, 64314, 62886, 61484, 60108, 58758, 57433, 56133,
      54858, 53607, 52380, 51176, 49996, 48838, 47704, 46591,
      45500, 44431, 43383, 42357, 41350, 40364, 39399, 38452,
      37526, 36618, 35729, 34858, 34006, 33172, 32355, 31555,
      30773, 30007, 29257, 28524, 27807, 27105, 26419, 25747,
      25091, 24449, 23821, 23208, 22608, 22021, 21448, 20888,
      20341, 19806, 19284, 18773, 18275, 17788, 17313, 16848,
      16395, 15953, 15521, 15099, 14687, 14286, 13894, 13511,
      13138, 12774, 12419, 12073, 11735, 11406, 11085, 10772,
      10467, 10170, 9880, 9598, 9322, 9054, 8793, 8538,
      8291, 8049, 7814, 7585, 7362, 7145, 6934, 6728,
      6528, 6333, 6144, 5960, 5780, 5606, 5436, 5271,
      5110, 4954, 4802, 4655, 4511, 4372, 4236, 4105,
      3977, 3852, 3732, 3614, 3500, 3390, 3282, 3178,
      3076, 2978, 2882, 2790, 2700, 2612, 2528, 2446,
      2366, 2288, 2213, 2141, 2070, 2002, 1935, 1871,
      1809, 1748, 1689, 1633, 1578, 1524, 1473, 1423,
      1374, 1327, 1282, 1238, 1195, 1154, 1114, 1075,
      1038, 1002, 967, 933, 900, 868, 838, 808,
      779, 752, 725, 699, 674, 650, 626, 604,
      582, 561, 540, 520, 501, 483, 465, 448,
      432, 416, 400, 385, 371, 357, 344, 331,
      318, 306, 295, 283, 273, 262, 252, 243,
      233, 224, 216, 207, 199, 191, 184, 177,
      170, 163, 157, 151, 145, 139, 133, 128,
      123, 118, 113, 109, 104, 100, 96, 92,
      89, 85, 81, 78, 75, 72, 69, 66,
      63, 61, 58, 56, 53, 51, 49, 47,
      45, 43, 41, 40, 38, 36, 35, 33,
      32, 30, 29, 28, 27, 26, 24, 23,
      22, 21, 20, 20, 19, 18, 17, 16,
      16, 15, 14, 14, 13, 12, 12, 11,
      11, 10, 10, 9, 9, 9, 8, 8,
      7, 7, 7, 6, 6, 6, 6, 5,
      5, 5, 5, 4, 4, 4, 4, 4,
      3, 3, 3, 3, 3, 3, 3, 2,
      2, 2, 2, 2, 2, 2, 2, 2,
      2, 2, 1, 1, 1, 1, 1, 1,
      1, 1, 1, 1, 1, 1, 1, 1,
      1, 1, 1, 1, 1
    >>

\* np.sqrt(x) for a rational 0 <= x < 25, in hundred-thousandths: the root
\* to three decimals, then one Newton step
SqrtFine(x) ==
    LET m == (x.n \div x.d) * 1000000 + LongDiv(x.n % x.d, x.d, 6, 0)
        z0 == ISqrtIn(m, 0, 46341)
    IN  IF z0 = 0 THEN 0
        ELSE z0 * 100 + ((m - z0 * z0) * 100) \div (2 * z0)

\* the table entry at position i (from 0) and the next, interpolated
\* linearly r thousandths of the way, as a probability to six decimals
Chi2SfBetween(i, r) ==
    Rat((Chi2SfTable[i + 1] * 1000
            + (Chi2SfTable[i + 2] - Chi2SfTable[i + 1]) * r) \div 1000,
        1000000)

\* 1 - stats.chi2.cdf(x, 1) to five decimals; 1 for x <= 0 and 0 beyond
\* x = 25, where it is below a millionth
Chi2Sf(x) ==
    IF RLe(x, Zero) THEN One
    ELSE IF RGe(x, Rat(25, 1)) THEN Zero
    ELSE Chi2SfBetween(SqrtFine(x) \div 1000, SqrtFine(x) % 1000)

\* int(total_observations * (1 - confidence_level)).  The float 1 - 0.9 lies
\* just below 0.1, so a product that would be a whole number truncates to
\* the number before it; the other levels round above and truncate exactly.
ExpectedViolations(total_observations, confidence_level) ==
    LET x == RMul(Rat(total_observations, 1), RSub(One, confidence_level))
    IN  IF Permille(confidence_level) = 900 /\ x.d = 1 /\ x.n > 0
        THEN x.n - 1
        ELSE RFloor(x)

\* a count that takes a loss equal to the estimate for a violation
Violations_NonStrict(rets, estimates) ==
    Cardinality({i \in DOMAIN rets : RLe(rets[i], RNeg(estimates[i]))})

\* np.sum(returns_array < -var_array)
Violations(rets, estimates) ==
    Cardinality({i \in DOMAIN rets : RLt(rets[i], RNeg(estimates[i]))})

\* a length check that rejects only a return series longer than the
\* estimate series
LengthMismatch_OneSided(rets, estimates) == Len(rets) > Len(estimates)

\* len(returns) != len(var_estimates)
LengthMismatch(rets, estimates) == Len(rets) # Len(estimates)

ValidateVarModel(rets, estimates, confidence_level, method) ==
    IF LengthMismatch(rets, estimates) THEN ValueError
    ELSE
    LET violations == Violations(rets, estimates)
        total_observations == Len(rets)
        violation_rate == RDiv(Rat(violations, 1), Rat(total_observations, 1))
        expected_violations ==
            ExpectedViolations(total_observations, confidence_level)
        p_observed == violation_rate
        p_expected == RSub(One, confidence_level)
        lr_statistic ==
            RMul(Rat(2, 1),
                 RAdd(RMul(Rat(violations, 1), Ln(RDiv(p_observed, p_expected))),
                      RMul(Rat(total_observations - violations, 1),
                           Ln(RDiv(RSub(One, p_observed),
                                   RSub(One, p_expected))))))
        kupiec_statistic ==
            IF violations = 0 THEN Zero
            ELSE IF RLt(Zero, p_observed) /\ RLt(p_observed, One)
                 THEN lr_statistic
                 ELSE Inf
        kupiec_p_value ==
            IF violations = 0 THEN One
            ELSE IF RLt(Zero, p_observed) /\ RLt(p_observed, One)
                 THEN Chi2Sf(lr_statistic)
                 ELSE Zero
    IN  [status |-> "ok",
         method |-> method,
         confidence_level |-> confidence_level,
         violations |-> violations,
         total_observations |-> total_observations,
         violation_rate |-> violation_rate,
         expected_violations |-> expected_violations,
         kupiec_statistic |-> kupiec_statistic,
         kupiec_p_value |-> kupiec_p_value,
         is_model_valid |-> RGt(kupiec_p_value, Rat(5, 100))]

validate_var_model(confidence_level, method) ==
    /\ last' = [op |-> "validate_var_model",
                confidence_level |-> confidence_level,
                method |-> method,
                result |-> ValidateVarModel(AsArray(returns),
                                            AsArray(var_estimates),
                                            confidence_level, method)]
    /\ UNCHANGED <<calc_frame, rng>>

BacktestRetVals == {-5, -3, 1}   \* enumerated realized returns, in 1/RetScale
EstimateVals == {0, 3}           \* enumerated VaR estimates, in 1/RetScale

\* one backtest on freshly chosen series, of equal or differing lengths
InitBacktest ==
    /\ TypicalInit
    /\ assets_returns = <<>>
    /\ returns \in SeqsUpTo(BacktestRetVals, MaxLen)
    /\ var_estimates \in SeqsUpTo(EstimateVals, MaxLen)

NextBacktest ==
    /\ last = NoCall
    /\ UNCHANGED earlier
    /\ \E c \in ConfidenceLevels, m \in {"historical", "parametric"} :
          validate_var_model(c, m)

SpecBacktest == InitBacktest /\ [][NextBacktest]_vars

-----------------------------------------------------------------------------
(* Repeated calls of one caller                                            *)

MaxBetween == 2                  \* calls counted after the first Monte Carlo call

SeqConfidenceLevels == {Rat(950, 1000), Rat(990, 1000)}

\* the series the repeated and the concurrent calls are made on
RepeatedReturns == {<<>>, <<1>>, <<-5, 2>>, SampleReturns}

\* the caller's note after a call has returned: its first Monte Carlo call,
\* and how many calls it has made since
Note(note, call) ==
    IF note = None
    THEN IF call.op = "calculate_monte_carlo_var"
         THEN Some([first |-> call, between |-> 0])
         ELSE None
    ELSE Some([first |-> note[1].first,
               between |-> IF note[1].between < MaxBetween
                           THEN note[1].between + 1 ELSE MaxBetween])

\* the sizes create_sample_data is called with: the default, and the ten
\* years of the performance test
SampleDays == {252, 2520}

\* the first values of np.random.normal(0.001, 0.02, days) drawn right
\* after np.random.seed(42), to six decimals
SampleDataHead ==
    <<Rat(10934, 1000000), Rat(-1765, 1000000), Rat(13954, 1000000)>>

\* create_sample_data(days): seeds the process-wide generator and draws
\* days variates from it; the list it returns is noted by its length and
\* its first values
create_sample_data(days) ==
    /\ last' = [op |-> "create_sample_data",
                days |-> days,
                result |-> [status |-> "ok",
                            data_points |-> days,
                            head |-> SampleDataHead]]
    /\ rng' = Seed(rng) + days
    /\ UNCHANGED calc_frame

InitSeq ==
    /\ portfolio_value = Rat(DefaultPortfolioValue, 1)
    /\ last = NoCall
    /\ rng \in GeneratorStates
    /\ threads = <<>>
    /\ earlier = None
    /\ dm = None
    /\ now = 0
    /\ assets_returns = <<>>
    /\ var_estimates = <<>>
    /\ returns \in RepeatedReturns

\* any sequence of estimator calls on one series; the generator stays
\* within the stretch of the stream the tables cover
NextSeq ==
    /\ rng <= StreamLimit
    /\ \/ \E c \in SeqConfidenceLevels, sims \in SimulationCounts,
             pv \in PortfolioValueArgs :
             calculate_monte_carlo_var(c, sims, pv)
       \/ \E c \in SeqConfidenceLevels : calculate_hybrid_var(c, None, None)
       \/ \E c \in SeqConfidenceLevels : calculate_historical_var(c, None)
       \/ \E c \in SeqConfidenceLevels :
             calculate_parametric_var(c, "normal", None)
       \/ \E days \in SampleDays : create_sample_data(days)
    /\ earlier' = Note(earlier, last')

SpecSeq == InitSeq /\ [][NextSeq]_vars

-----------------------------------------------------------------------------
(* Estimator calls of two threads of one process                           *)

Threads == {"t1", "t2"}

ThreadOps == {"calculate_monte_carlo_var", "calculate_hybrid_var"}

Idle == [pc |-> "idle"]

\* the result a thread returns once its sample, drawn with the generator
\* at position start, is evaluated
ThreadResult(call, rets, self_pv, start) ==
    IF call.op = "calculate_monte_carlo_var"
    THEN MonteCarloSimulate(rets, call.confidence_level, call.simulations,
                            None, self_pv, start)
    ELSE HybridBlend(rets, call.confidence_level, DefaultHybridWeights,
                     self_pv,
                     HistoricalVar(rets, call.confidence_level, None, self_pv),
                     ParametricVar(rets, call.confidence_level, "normal",
                                   None, self_pv),
                     MonteCarloSimulate(rets, call.confidence_level,
                                        HybridSimulations, None, self_pv,
                                        start))

\* thread t enters an estimator and runs up to the seeding: the check of
\* the input and the statistics of the series (and, in the hybrid
\* estimator, the historical and the parametric estimate)
begin_call(t, op, confidence_level, simulations) ==
    /\ threads[t].pc = "idle"
    /\ op = "calculate_hybrid_var" => simulations = HybridSimulations
    /\ threads' = [threads EXCEPT ![t] =
            IF Len(returns) = 0
            THEN [pc |-> "done", op |-> op,
                  confidence_level |-> confidence_level,
                  simulations |-> simulations, result |-> ValueError]
            ELSE [pc |-> "seed", op |-> op,
                  confidence_level |-> confidence_level,
                  simulations |-> simulations]]
    /\ UNCHANGED <<inputs, last, rng, earlier, dm, now>>

\* np.random.seed(42) of thread t
seed_generator(t) ==
    /\ threads[t].pc = "seed"
    /\ rng' = Seed(rng)
    /\ threads' = [threads EXCEPT ![t].pc = "sample"]
    /\ UNCHANGED <<inputs, last, earlier, dm, now>>

\* np.random.normal(...) of thread t and the rest of its call
draw_sample(t) ==
    /\ threads[t].pc = "sample"
    /\ rng <= StreamLimit
    /\ rng' = rng + threads[t].simulations
    /\ threads' = [threads EXCEPT ![t] =
            [pc |-> "done", op |-> threads[t].op,
             confidence_level |-> threads[t].confidence_level,
             simulations |-> threads[t].simulations,
             result |-> ThreadResult(threads[t], AsArray(returns),
                                     portfolio_value, rng)]]
    /\ UNCHANGED <<inputs, last, earlier, dm, now>>

InitThreads ==
    /\ portfolio_value = Rat(DefaultPortfolioValue, 1)
    /\ last = NoCall
    /\ rng \in GeneratorStates
    /\ threads = [t \in Threads |-> Idle]
    /\ earlier = None
    /\ dm = None
    /\ now = 0
    /\ assets_returns = <<>>
    /\ var_estimates = <<>>
    /\ returns \in RepeatedReturns

NextThreads ==
    \E t \in Threads :
        \/ \E op \in ThreadOps, c \in SeqConfidenceLevels,
              sims \in SimulationCounts : begin_call(t, op, c, sims)
        \/ seed_generator(t)
        \/ draw_sample(t)

SpecThreads == InitThreads /\ [][NextThreads]_vars

-----------------------------------------------------------------------------
(* src/src/cfd_bot/core/drawdown_manager.py (class DrawdownManager)        *)
(*                                                                         *)
(* The manager is the record dm; a method is an operator from the record   *)
(* self (and the arguments) to the record after the call.  Equity values   *)
(* are whole numbers of thousands, datetimes are whole hours.  The message *)
(* and the recommended action of an alert are fixed texts per level and    *)
(* are not carried.  A callback is a record with a name and with what it   *)
(* does when called: return or raise; the calls the callbacks have         *)
(* received are logged in the field invoked.                               *)

MaxUpdates == 4                  \* update_equity calls in one behaviour
MaxNow == 48                     \* the clock stops advancing at this hour

DrawdownLevels == {"normal", "warning", "critical", "emergency"}
RecoveryModes == {"normal", "conservative", "aggressive", "defensive"}

\* self.thresholds of a manager built from the default configuration
DefaultThresholds ==
    [warning |-> Rat(5, 100), critical |-> Rat(10, 100),
     emergency |-> Rat(15, 100), max_drawdown |-> Rat(20, 100)]

RecoveryStrategy(mode, position_size_multiplier, risk_reduction_factor, max_positions, recovery_target, timeout_hours) ==
    [mode |-> mode,
     position_size_multiplier |-> position_size_multiplier,
     risk_reduction_factor |-> risk_reduction_factor,
     max_positions |-> max_positions,
     recovery_target |-> recovery_target,
     timeout_hours |-> timeout_hours]

\* self.recovery_strategies as __init__ builds it
DefaultRecoveryStrategies ==
    [normal |->
        RecoveryStrategy("normal", Rat(10, 10), Rat(10, 10), 10, Rat(2, 100), 24),
     conservative |->
        RecoveryStrategy("conservative", Rat(5, 10), Rat(7, 10), 5, Rat(1, 100), 48),
     aggressive |->
        RecoveryStrategy("aggressive", Rat(15, 10), Rat(12, 10), 15, Rat(5, 100), 12),
     defensive |->
        RecoveryStrategy("defensive", Rat(3, 10), Rat(5, 10), 3, Rat(5, 1000), 72)]

\* the entries equity_history keeps
HistoryLimit == 1000

\* the keys of self.callbacks
EventTypes ==
    {"drawdown_warning", "drawdown_critical", "drawdown_emergency",
     "recovery_started", "recovery_completed", "peak_updated"}

\* DrawdownManager()
NewManager ==
    [thresholds |-> DefaultThresholds,
     equity_history |-> <<>>,
     drawdown_periods |-> <<>>,
     alert_history |-> <<>>,
     recovery_history |-> <<>>,
     current_peak |-> Zero,
     current_drawdown |-> Zero,
     current_level |-> "normal",
     current_recovery_mode |-> "normal",
     underwater_start_date |-> None,
     recovery_strategies |-> DefaultRecoveryStrategies,
     callbacks |-> [event_type \in EventTypes |-> <<>>],
     invoked |-> <<>>,
     monitoring_thread |-> None,
     monitoring_active |-> FALSE]

\* a limit that keeps the oldest entries
LastEntries_Oldest(history) ==
    IF Len(history) > HistoryLimit
    THEN SubSeq(history, 1, HistoryLimit)
    ELSE history

\* self.equity_history[-HistoryLimit:]
LastEntries(history) ==
    IF Len(history) > HistoryLimit
    THEN SubSeq(history, Len(history) - HistoryLimit + 1, Len(history))
    ELSE history

\* the first statements of update_equity: the history and its size limit
append_equity(self, equity, timestamp) ==
    [self EXCEPT !.equity_history = LastEntries(Append(@, <<timestamp, equity>>))]

\* _end_underwater_period
end_underwater_period(self, timestamp) ==
    [self EXCEPT !.underwater_start_date = None]

\* the loop of _execute_callbacks from the i-th callback on: the calls made
\* until a callback raises
RECURSIVE RunCallbacks(_, _, _, _)
RunCallbacks(registered, i, event_type, invoked) ==
    IF i > Len(registered) THEN invoked
    ELSE IF registered[i].raises
         THEN Append(invoked, [event_type |-> event_type,
                               callback |-> registered[i].name])
         ELSE RunCallbacks(registered, i + 1, event_type,
                           Append(invoked, [event_type |-> event_type,
                                            callback |-> registered[i].name]))

\* _execute_callbacks; an exception of a callback ends the loop and is
\* logged
execute_callbacks(self, event_type) ==
    [self EXCEPT !.invoked =
        RunCallbacks(IF event_type \in DOMAIN self.callbacks
                     THEN self.callbacks[event_type] ELSE <<>>,
                     1, event_type, @)]

\* _update_peak, called when equity > self.current_peak
update_peak(self, equity, timestamp) ==
    execute_callbacks(
        end_underwater_period([self EXCEPT !.current_peak = equity], timestamp),
        "peak_updated")

\* a peak check that never moves the peak
check_peak_frozen(self, equity, timestamp) == self

\* the peak check of update_equity
check_peak(self, equity, timestamp) ==
    IF RGt(equity, self.current_peak)
    THEN update_peak(self, equity, timestamp)
    ELSE self

\* _calculate_current_drawdown
calculate_current_drawdown(self, current_equity) ==
    IF RLe(self.current_peak, Zero) THEN Zero
    ELSE RDiv(RSub(self.current_peak, current_equity), self.current_peak)

\* a level decision with exclusive thresholds
determine_drawdown_level_exclusive(self, drawdown) ==
    IF RGt(drawdown, self.thresholds.emergency) THEN "emergency"
    ELSE IF RGt(drawdown, self.thresholds.critical) THEN "critical"
    ELSE IF RGt(drawdown, self.thresholds.warning) THEN "warning"
    ELSE "normal"

\* _determine_drawdown_level
determine_drawdown_level(self, drawdown) ==
    IF RGe(drawdown, self.thresholds.emergency) THEN "emergency"
    ELSE IF RGe(drawdown, self.thresholds.critical) THEN "critical"
    ELSE IF RGe(drawdown, self.thresholds.warning) THEN "warning"
    ELSE "normal"

\* _create_alert; self.thresholds.get(level.value, 0.0) has no entry for
\* the normal level
create_alert(self, level, timestamp) ==
    [level |-> level,
     current_drawdown |-> self.current_drawdown,
     threshold |-> IF level \in DOMAIN self.thresholds
                   THEN self.thresholds[level] ELSE Zero,
     timestamp |-> timestamp,
     acknowledged |-> FALSE]

\* a mapping that leaves the recovery mode as it is at the emergency level
strategy_mapping_keep(level, mode) ==
    CASE level = "normal" -> "normal"
      [] level = "warning" -> "conservative"
      [] level = "critical" -> "defensive"
      [] level = "emergency" -> mode

\* strategy_mapping of _adjust_recovery_strategy
strategy_mapping(level, mode) ==
    CASE level = "normal" -> "normal"
      [] level = "warning" -> "conservative"
      [] level = "critical" -> "defensive"
      [] level = "emergency" -> "defensive"

\* _adjust_recovery_strategy
adjust_recovery_strategy(self, level) ==
    [self EXCEPT !.current_recovery_mode =
        strategy_mapping(level, self.current_recovery_mode)]

\* callback_key of _handle_level_change
callback_key(new_level) ==
    CASE new_level = "normal" -> "drawdown_normal"
      [] new_level = "warning" -> "drawdown_warning"
      [] new_level = "critical" -> "drawdown_critical"
      [] new_level = "emergency" -> "drawdown_emergency"

\* the callbacks of a level change; callback_key is no key of
\* self.callbacks for the normal level
level_callbacks(self, new_level) ==
    IF callback_key(new_level) \in DOMAIN self.callbacks
    THEN execute_callbacks(self, callback_key(new_level))
    ELSE self

\* a level change that raises no alert on the return to the normal level
handle_level_change_quiet(self, new_level, timestamp) ==
    level_callbacks(
        adjust_recovery_strategy(
            [self EXCEPT !.current_level = new_level,
                         !.alert_history =
                            IF new_level = "normal" THEN @
                            ELSE Append(@, create_alert(self, new_level, timestamp))],
            new_level),
        new_level)

\* a level change that a raising callback undoes
handle_level_change_aborting(self, new_level, timestamp) ==
    IF /\ callback_key(new_level) \in DOMAIN self.callbacks
       /\ \E i \in DOMAIN self.callbacks[callback_key(new_level)] :
             self.callbacks[callback_key(new_level)][i].raises
    THEN level_callbacks(self, new_level)
    ELSE level_callbacks(
            adjust_recovery_strategy(
                [self EXCEPT !.current_level = new_level,
                             !.alert_history =
                                Append(@, create_alert(self, new_level, timestamp))],
                new_level),
            new_level)

\* _handle_level_change
handle_level_change(self, new_level, timestamp) ==
    level_callbacks(
        adjust_recovery_strategy(
            [self EXCEPT !.current_level = new_level,
                         !.alert_history =
                            Append(@, create_alert(self, new_level, timestamp))],
            new_level),
        new_level)

\* the level check of update_equity
check_level(self, new_level, timestamp) ==
    IF new_level # self.current_level
    THEN handle_level_change(self, new_level, timestamp)
    ELSE self

\* the drawdown and the level steps of update_equity
update_drawdown(self, current_drawdown, timestamp) ==
    check_level([self EXCEPT !.current_drawdown = current_drawdown],
                determine_drawdown_level(self, current_drawdown), timestamp)

\* an underwater period that restarts at every update below the peak
manage_underwater_period_restart(self, timestamp) ==
    IF RGt(self.current_drawdown, Zero)
    THEN [self EXCEPT !.underwater_start_date = Some(timestamp)]
    ELSE end_underwater_period(self, timestamp)

\* _manage_underwater_period
manage_underwater_period(self, timestamp) ==
    IF RGt(self.current_drawdown, Zero)
    THEN IF self.underwater_start_date = None
         THEN [self EXCEPT !.underwater_start_date = Some(timestamp)]
         ELSE self
    ELSE IF self.underwater_start_date # None
         THEN end_underwater_period(self, timestamp)
         ELSE self

\* the drawdown, level and underwater steps, after the peak check
after_peak_check(self, equity, timestamp) ==
    manage_underwater_period(
        update_drawdown(self, calculate_current_drawdown(self, equity), timestamp),
        timestamp)

\* the state of the manager after update_equity(equity, timestamp)
UpdateEquity(self, equity, timestamp) ==
    after_peak_check(
        check_peak(append_equity(self, equity, timestamp), equity, timestamp),
        equity, timestamp)

\* the larger and the smaller of two equity values
Larger(a, b) == IF RGt(b, a) THEN b ELSE a
Smaller(a, b) == IF RLt(b, a) THEN b ELSE a

\* max(equity for _, equity in history[lo..hi]); the scan over the entries
\* is evaluated by halves, which keeps the evaluation shallow for a
\* history of a thousand entries
RECURSIVE MaxEquity(_, _, _)
MaxEquity(history, lo, hi) ==
    IF lo = hi THEN history[lo][2]
    ELSE Larger(MaxEquity(history, lo, (lo + hi) \div 2),
                MaxEquity(history, (lo + hi) \div 2 + 1, hi))

\* min(equity for _, equity in history[lo..hi])
RECURSIVE MinEquity(_, _, _)
MinEquity(history, lo, hi) ==
    IF lo = hi THEN history[lo][2]
    ELSE Smaller(MinEquity(history, lo, (lo + hi) \div 2),
                 MinEquity(history, (lo + hi) \div 2 + 1, hi))

\* the drawdown one pass of the loop of _calculate_max_drawdown computes,
\* peak being the peak after the pass has updated it
EntryDrawdown(peak, equity) ==
    IF RGt(peak, Zero) THEN RDiv(RSub(peak, equity), peak) ELSE Zero

\* peak and max_drawdown after one pass of the loop
LoopPass(peak, max_drawdown, equity) ==
    [peak |-> Larger(peak, equity),
     max_drawdown |-> Larger(max_drawdown,
                             EntryDrawdown(Larger(peak, equity), equity))]

\* the loop of _calculate_max_drawdown over the entries lo..hi, entered
\* with the peak and the max_drawdown the earlier passes have left: their
\* values after these passes.  The passes are taken by halves, and the
\* result of the first half is bound as an element of a one-element set,
\* so that it is evaluated once, before the second half starts.
RECURSIVE MaxDrawdownOver(_, _, _, _)
MaxDrawdownOver(history, lo, hi, entered) ==
    IF lo = hi
    THEN LoopPass(entered.peak, entered.max_drawdown, history[lo][2])
    ELSE CHOOSE left \in
            {MaxDrawdownOver(history, (lo + hi) \div 2 + 1, hi, first) :
                first \in {MaxDrawdownOver(history, lo, (lo + hi) \div 2,
                                           entered)}} : TRUE

\* _calculate_max_drawdown
calculate_max_drawdown(self) ==
    IF Len(self.equity_history) = 0 THEN Zero
    ELSE MaxDrawdownOver(self.equity_history, 1, Len(self.equity_history),
                         [peak |-> self.equity_history[1][2],
                          max_drawdown |-> Zero]).max_drawdown

\* _calculate_peak_to_trough_ratio
calculate_peak_to_trough_ratio(self) ==
    IF Len(self.equity_history) = 0 THEN One
    ELSE IF RGt(MinEquity(self.equity_history, 1, Len(self.equity_history)), Zero)
         THEN RDiv(MaxEquity(self.equity_history, 1, Len(self.equity_history)),
                   MinEquity(self.equity_history, 1, Len(self.equity_history)))
         ELSE One

\* _calculate_drawdown_metrics; drawdown_periods is never filled, so the
\* figures derived from it keep their defaults
calculate_drawdown_metrics(self, timestamp) ==
    [current_drawdown |-> IF Len(self.equity_history) = 0 THEN Zero
                          ELSE self.current_drawdown,
     max_drawdown |-> calculate_max_drawdown(self),
     avg_drawdown |-> Zero,
     drawdown_frequency |-> Zero,
     avg_recovery_time |-> Zero,
     current_underwater_days |->
        IF Len(self.equity_history) = 0 \/ self.underwater_start_date = None
        THEN 0
        ELSE (timestamp - self.underwater_start_date[1]) \div 24,
     max_underwater_days |-> 0,
     peak_to_trough_ratio |-> calculate_peak_to_trough_ratio(self),
     recovery_factor |-> One,
     timestamp |-> timestamp]

\* update_equity(equity) with the default timestamp datetime.now()
update_equity(equity) ==
    /\ dm # None
    /\ Len(dm.equity_history) < MaxUpdates
    /\ dm' = UpdateEquity(dm, equity, now)
    /\ last' = [op |-> "update_equity",
                equity |-> equity,
                before |-> dm,
                result |-> calculate_drawdown_metrics(
                               UpdateEquity(dm, equity, now), now)]
    /\ UNCHANGED <<inputs, rng, threads, earlier, now>>

\* time passing between two calls
advance_clock(hours) ==
    /\ now < MaxNow
    /\ now' = now + hours
    /\ UNCHANGED <<inputs, last, rng, threads, earlier, dm>>

\* equity values a caller reports, in thousands
EquityVals == {Rat(-1, 1), Zero, Rat(85, 1), Rat(95, 1), Rat(100, 1), Rat(105, 1)}

\* a freshly constructed manager; the calculator is not used
InitDrawdown ==
    /\ portfolio_value = Rat(DefaultPortfolioValue, 1)
    /\ returns = <<>>
    /\ assets_returns = <<>>
    /\ var_estimates = <<>>
    /\ last = NoCall
    /\ rng = SeedPosition
    /\ threads = <<>>
    /\ earlier = None
    /\ dm = NewManager
    /\ now = 0

NextDrawdown ==
    \/ \E equity \in EquityVals : update_equity(equity)
    \/ advance_clock(24)

SpecDrawdown == InitDrawdown /\ [][NextDrawdown]_vars

-----------------------------------------------------------------------------
(* Recovery modes of the DrawdownManager                                   *)

MaxRecoveries == 1               \* start_recovery_mode calls in one behaviour
MaxRecoveryUpdates == 3          \* update_equity calls around a recovery

\* the record start_recovery_mode appends; keys a dict does not hold yet
\* are None
RecoveryRecord(start_time, mode, old_mode, target, starting_drawdown) ==
    [start_time |-> start_time,
     mode |-> mode,
     old_mode |-> old_mode,
     target |-> target,
     starting_drawdown |-> starting_drawdown,
     end_time |-> None,
     success |-> None,
     timeout |-> None,
     final_drawdown |-> None]

\* the strategy of mode with the recovery target start_recovery_mode sets
WithTarget(strategies, mode, target) ==
    IF target = None THEN strategies
    ELSE [strategies EXCEPT ![mode].recovery_target = target[1]]

\* the state of the manager after start_recovery_mode(mode, target); the
\* message logged last formats target and fails when target is None, after
\* the state has been changed
StartRecoveryMode(self, mode, target, clock) ==
    IF mode \notin DOMAIN self.recovery_strategies THEN self
    ELSE execute_callbacks(
            [self EXCEPT
                !.current_recovery_mode = mode,
                !.recovery_strategies = WithTarget(@, mode, target),
                !.recovery_history =
                    Append(@, RecoveryRecord(
                        clock, mode, self.current_recovery_mode,
                        WithTarget(self.recovery_strategies, mode,
                                   target)[mode].recovery_target,
                        self.current_drawdown))],
            "recovery_started")

\* the value start_recovery_mode returns
StartRecoveryModeResult(self, mode, target) ==
    mode \in DOMAIN self.recovery_strategies /\ target # None

start_recovery_mode(mode, target) ==
    /\ dm # None
    /\ Len(dm.recovery_history) < MaxRecoveries
    /\ dm' = StartRecoveryMode(dm, mode, target, now)
    /\ last' = [op |-> "start_recovery_mode",
                mode |-> mode,
                target |-> target,
                before |-> dm,
                result |-> StartRecoveryModeResult(dm, mode, target)]
    /\ UNCHANGED <<inputs, rng, threads, earlier, now>>

\* get_recovery_strategy
get_recovery_strategy(self) ==
    self.recovery_strategies[self.current_recovery_mode]

\* the latest recovery record with the given keys set
FinishLatest(history, end_time, success, timeout, final_drawdown) ==
    IF Len(history) = 0 THEN history
    ELSE [history EXCEPT ![Len(history)] =
            [@ EXCEPT !.end_time = Some(end_time),
                      !.success = Some(success),
                      !.timeout = timeout,
                      !.final_drawdown = Some(final_drawdown)]]

\* _complete_recovery
complete_recovery(self, clock) ==
    [(IF Len(self.recovery_history) = 0 THEN self
      ELSE execute_callbacks(self, "recovery_completed"))
     EXCEPT
        !.recovery_history =
            FinishLatest(@, clock, TRUE,
                         IF Len(@) = 0 THEN None ELSE @[Len(@)].timeout,
                         self.current_drawdown),
        !.current_recovery_mode = "normal"]

\* _timeout_recovery
timeout_recovery(self, clock) ==
    [self EXCEPT
        !.recovery_history =
            FinishLatest(@, clock, FALSE, Some(TRUE), self.current_drawdown),
        !.current_recovery_mode =
            IF @ = "aggressive" THEN "conservative"
            ELSE IF @ = "conservative" THEN "defensive"
            ELSE "normal"]

\* the timeout check of check_recovery_completion under the strategy the
\* call has fetched
TimedOutUnder(self, strategy, clock) ==
    /\ Len(self.recovery_history) > 0
    /\ clock - self.recovery_history[Len(self.recovery_history)].start_time
          >= strategy.timeout_hours

\* the timeout check of check_recovery_completion
IsTimedOut(self, clock) ==
    TimedOutUnder(self, get_recovery_strategy(self), clock)

\* check_recovery_completion after strategy = self.get_recovery_strategy()
CheckUnder(self, strategy, clock) ==
    IF RLe(self.current_drawdown, strategy.recovery_target)
    THEN complete_recovery(self, clock)
    ELSE IF TimedOutUnder(self, strategy, clock)
    THEN timeout_recovery(self, clock)
    ELSE self

\* the state of the manager after check_recovery_completion()
CheckRecoveryCompletion(self, clock) ==
    CheckUnder(self, get_recovery_strategy(self), clock)

\* the value check_recovery_completion returns
CheckRecoveryCompletionResult(self) ==
    RLe(self.current_drawdown, get_recovery_strategy(self).recovery_target)

check_recovery_completion ==
    /\ dm # None
    /\ dm' = CheckRecoveryCompletion(dm, now)
    /\ last' = [op |-> "check_recovery_completion",
                before |-> dm,
                clock |-> now,
                result |-> CheckRecoveryCompletionResult(dm)]
    /\ UNCHANGED <<inputs, rng, threads, earlier, now>>

\* equity values of a drawdown and of a partial recovery, in thousands
RecoveryEquityVals == {Rat(100, 1), Rat(85, 1), Rat(90, 1), Rat(97, 1)}

\* recovery targets a caller passes: omitted, or 5 %
RecoveryTargets == {None, Some(Rat(5, 100))}

NextRecovery ==
    \/ /\ Len(dm.equity_history) < MaxRecoveryUpdates
       /\ \E equity \in RecoveryEquityVals : update_equity(equity)
    \/ \E mode \in RecoveryModes, target \in RecoveryTargets :
          start_recovery_mode(mode, target)
    \/ check_recovery_completion
    \/ advance_clock(36)

SpecRecovery == InitDrawdown /\ [][NextRecovery]_vars

-----------------------------------------------------------------------------
(* Callbacks of the DrawdownManager                                        *)

MaxCallbacks == 2                \* callbacks registered in one behaviour
MaxCallbackUpdates == 3          \* update_equity calls of a behaviour with callbacks

\* the callbacks a caller registers: two that return, one that raises
CallbackFunctions ==
    {[name |-> "first", raises |-> FALSE],
     [name |-> "second", raises |-> FALSE],
     [name |-> "failing", raises |-> TRUE]}

\* the event types a caller passes to add_callback
CallbackEventArgs == {"drawdown_warning", "peak_updated", "invalid_event"}

\* the number of callbacks registered for the given events
RECURSIVE RegisteredCount(_, _)
RegisteredCount(callbacks, event_types) ==
    IF event_types = {} THEN 0
    ELSE LET event_type == CHOOSE e \in event_types : TRUE
         IN  Len(callbacks[event_type])
                + RegisteredCount(callbacks, event_types \ {event_type})

\* the state of the manager after add_callback(event_type, callback)
AddCallback(self, event_type, callback) ==
    IF event_type \in DOMAIN self.callbacks
    THEN [self EXCEPT !.callbacks[event_type] = Append(@, callback)]
    ELSE self

add_callback(event_type, callback) ==
    /\ dm # None
    /\ RegisteredCount(dm.callbacks, DOMAIN dm.callbacks) < MaxCallbacks
    /\ dm' = AddCallback(dm, event_type, callback)
    /\ last' = [op |-> "add_callback",
                event_type |-> event_type,
                callback |-> callback,
                before |-> dm]
    /\ UNCHANGED <<inputs, rng, threads, earlier, now>>

\* equity values of a peak, a warning and a critical drawdown, in thousands
CallbackEquityVals == {Rat(100, 1), Rat(94, 1), Rat(88, 1)}

NextCallbacks ==
    \/ \E event_type \in CallbackEventArgs, callback \in CallbackFunctions :
          add_callback(event_type, callback)
    \/ /\ Len(dm.equity_history) < MaxCallbackUpdates
       /\ \E equity \in CallbackEquityVals : update_equity(equity)

SpecCallbacks == InitDrawdown /\ [][NextCallbacks]_vars

-----------------------------------------------------------------------------
(* The monitoring thread of the DrawdownManager                            *)
(*                                                                         *)
(* One caller thread calls the manager; every start_monitoring that finds  *)
(* monitoring_active False starts a thread that runs _monitoring_loop.     *)
(* The manager holds no lock, so the statements of the loop interleave     *)
(* with the statements of the calls of the caller.  A step of a thread is  *)
(* one source line that reads or writes what another thread writes or      *)
(* reads (the clock, monitoring_active, current_recovery_mode,             *)
(* current_drawdown, a recovery target, recovery_history and its records,  *)
(* alert_history), together with the lines before it that touch nothing    *)
(* shared.                                                                 *)
(*                                                                         *)
(* threads.caller is the position of the caller: "ready" between two       *)
(* calls, "joining" inside stop_monitoring, "history", "peak",             *)
(* "peak_callbacks", "drawdown", "level", "adjust", "level_callbacks",     *)
(* "underwater" inside update_equity (before lines 185, 192, 226, 196,     *)
(* 199, 262, 265 and 204), "set_mode", "set_target", "record", "append",   *)
(* "started_callbacks", "log" inside start_recovery_mode (before lines     *)
(* 505, 508, 512, 519, 522 and 524); threads.call holds the arguments and  *)
(* the locals of the call.  threads.loops holds, for each loop thread, its     *)
(* position and its locals: strategy is the RecoveryStrategy object the    *)
(* thread holds, named by its key in self.recovery_strategies;             *)
(* last_recovery is the record the thread holds, named by its place in     *)
(* self.recovery_history; cutoff_date and kept are the cutoff and the new  *)
(* list of _cleanup_old_alerts; callback is the place, in the list of the  *)
(* event, of the callback _execute_callbacks calls next, and it is a      *)
(* local of the caller as well.  stopped and resumed note whether         *)
(* stop_monitoring has been called since the thread started and whether    *)
(* the loop has passed its while condition after that.                     *)

MaxStarts == 2                   \* start_monitoring calls in one behaviour
MaxMonitorUpdates == 2           \* update_equity calls, the first one included
MaxMonitorRecoveries == 1        \* start_recovery_mode calls beside it

\* max_age_days of _cleanup_old_alerts
MaxAgeDays == 30

\* timedelta(days=max_age_days), in hours
MaxAlertAge == MaxAgeDays * 24

\* threading.Thread(target=self._monitoring_loop, ...).start()
NewLoop ==
    [pc |-> "test", strategy |-> None, last_recovery |-> None,
     cutoff_date |-> None, kept |-> <<>>, callback |-> 1,
     stopped |-> FALSE, resumed |-> FALSE]

\* the loop threads a behaviour can start
LoopIds == 1..MaxStarts

\* the calls of start_monitoring in the behaviour so far
StartsMade == Len(threads.loops) + threads.refused

\* the loop thread i is about to run the statement pc
LoopAt(i, pc) == i \in DOMAIN threads.loops /\ threads.loops[i].pc = pc

\* the caller is between two calls
NoFrame == [op |-> "none"]

\* self.callbacks.get(event_type, [])
CallbacksOf(self, event_type) ==
    IF event_type \in DOMAIN self.callbacks THEN self.callbacks[event_type]
    ELSE <<>>

\* one pass of the for loop of _execute_callbacks: callback(data) for the
\* k-th callback of the event, if there is one
CallCallback(self, event_type, k) ==
    IF k > Len(CallbacksOf(self, event_type)) THEN self
    ELSE [self EXCEPT !.invoked =
            Append(@, [event_type |-> event_type,
                       callback |-> CallbacksOf(self, event_type)[k].name])]

\* the for loop of _execute_callbacks ends with the k-th pass: the list is
\* exhausted, or the callback has raised
CallbacksEnd(self, event_type, k) ==
    \/ k >= Len(CallbacksOf(self, event_type))
    \/ CallbacksOf(self, event_type)[k].raises

start_monitoring ==
    /\ threads.caller = "ready"
    /\ IF dm.monitoring_active
       THEN /\ threads' = [threads EXCEPT !.refused = @ + 1]
            /\ dm' = dm
       ELSE /\ dm' = [dm EXCEPT !.monitoring_active = TRUE,
                                !.monitoring_thread = Some(Len(threads.loops) + 1)]
            /\ threads' = [threads EXCEPT !.loops = Append(@, NewLoop)]
    /\ last' = [op |-> "start_monitoring", before |-> dm]
    /\ UNCHANGED <<inputs, rng, earlier, now>>

\* stop_monitoring up to the join
stop_monitoring ==
    /\ threads.caller = "ready"
    /\ dm' = [dm EXCEPT !.monitoring_active = FALSE]
    /\ threads' = [threads EXCEPT
            !.caller = "joining",
            !.loops = [i \in DOMAIN @ |->
                          IF @[i].pc = "exited" THEN @[i]
                          ELSE [@[i] EXCEPT !.stopped = TRUE]]]
    /\ last' = [op |-> "stop_monitoring", before |-> dm]
    /\ UNCHANGED <<inputs, rng, earlier, now>>

\* self.monitoring_thread.join(timeout=5) returns: the thread has ended, or
\* the five seconds have passed, wherever the thread is by then
join_returns ==
    /\ threads.caller = "joining"
    /\ threads' = [threads EXCEPT !.caller = "ready"]
    /\ UNCHANGED <<inputs, last, rng, earlier, dm, now>>

\* while self.monitoring_active
loop_test(i) ==
    /\ LoopAt(i, "test")
    /\ threads' = [threads EXCEPT !.loops[i] =
            IF dm.monitoring_active
            THEN [@ EXCEPT !.pc = "body", !.resumed = @ \/ threads.loops[i].stopped]
            ELSE [@ EXCEPT !.pc = "exited"]]
    /\ UNCHANGED <<inputs, last, rng, earlier, dm, now>>

\* if self.current_recovery_mode != RecoveryMode.NORMAL
loop_body(i) ==
    /\ LoopAt(i, "body")
    /\ threads' = [threads EXCEPT !.loops[i].pc =
            IF dm.current_recovery_mode # "normal" THEN "strategy"
            ELSE "cleanup"]
    /\ UNCHANGED <<inputs, last, rng, earlier, dm, now>>

\* strategy = self.get_recovery_strategy() of check_recovery_completion:
\* the thread holds the object self.recovery_strategies[mode]
loop_get_strategy(i) ==
    /\ LoopAt(i, "strategy")
    /\ threads' = [threads EXCEPT !.loops[i] =
            [@ EXCEPT !.pc = "compare",
                      !.strategy = Some(dm.current_recovery_mode)]]
    /\ UNCHANGED <<inputs, last, rng, earlier, dm, now>>

\* the RecoveryStrategy object the loop thread i holds, as it is now
HeldStrategy(i) == dm.recovery_strategies[threads.loops[i].strategy[1]]

\* if self.current_drawdown <= strategy.recovery_target
loop_check(i) ==
    /\ LoopAt(i, "compare")
    /\ threads' = [threads EXCEPT !.loops[i].pc =
            IF RLe(dm.current_drawdown, HeldStrategy(i).recovery_target)
            THEN "complete" ELSE "timeout"]
    /\ UNCHANGED <<inputs, last, rng, earlier, dm, now>>

\* _complete_recovery: if self.recovery_history, and
\* last_recovery = self.recovery_history[-1]
loop_complete(i) ==
    /\ LoopAt(i, "complete")
    /\ threads' = [threads EXCEPT !.loops[i] =
            IF Len(dm.recovery_history) = 0
            THEN [@ EXCEPT !.pc = "reset_mode"]
            ELSE [@ EXCEPT !.pc = "end_time",
                           !.last_recovery = Some(Len(dm.recovery_history))]]
    /\ UNCHANGED <<inputs, last, rng, earlier, dm, now>>

\* the record the loop thread i holds, with one key set
SetKey(i, key, value) ==
    [dm EXCEPT !.recovery_history[threads.loops[i].last_recovery[1]] =
        [@ EXCEPT ![key] = value]]

\* last_recovery["end_time"] = datetime.now() of _complete_recovery
loop_end_time(i) ==
    /\ LoopAt(i, "end_time")
    /\ dm' = SetKey(i, "end_time", Some(now))
    /\ threads' = [threads EXCEPT !.loops[i].pc = "success"]
    /\ UNCHANGED <<inputs, last, rng, earlier, now>>

\* last_recovery["success"] = True
loop_success(i) ==
    /\ LoopAt(i, "success")
    /\ dm' = SetKey(i, "success", Some(TRUE))
    /\ threads' = [threads EXCEPT !.loops[i].pc = "final_drawdown"]
    /\ UNCHANGED <<inputs, last, rng, earlier, now>>

\* last_recovery["final_drawdown"] = self.current_drawdown of
\* _complete_recovery
loop_final_drawdown(i) ==
    /\ LoopAt(i, "final_drawdown")
    /\ dm' = SetKey(i, "final_drawdown", Some(dm.current_drawdown))
    /\ threads' = [threads EXCEPT !.loops[i].pc = "completed_callbacks"]
    /\ UNCHANGED <<inputs, last, rng, earlier, now>>

\* self._execute_callbacks("recovery_completed", last_recovery): the call
\* of one callback
loop_completed_callbacks(i) ==
    /\ LoopAt(i, "completed_callbacks")
    /\ dm' = CallCallback(dm, "recovery_completed", threads.loops[i].callback)
    /\ threads' = [threads EXCEPT !.loops[i] =
            IF CallbacksEnd(dm, "recovery_completed", threads.loops[i].callback)
            THEN [@ EXCEPT !.pc = "reset_mode", !.callback = 1]
            ELSE [@ EXCEPT !.callback = @ + 1]]
    /\ UNCHANGED <<inputs, last, rng, earlier, now>>

\* self.current_recovery_mode = RecoveryMode.NORMAL of _complete_recovery;
\* check_recovery_completion returns
loop_reset_mode(i) ==
    /\ LoopAt(i, "reset_mode")
    /\ dm' = [dm EXCEPT !.current_recovery_mode = "normal"]
    /\ threads' = [threads EXCEPT !.loops[i] =
            [@ EXCEPT !.pc = "cleanup", !.strategy = None,
                      !.last_recovery = None]]
    /\ UNCHANGED <<inputs, last, rng, earlier, now>>

\* the timeout check: if self.recovery_history, last_recovery and its
\* start_time
loop_timeout(i) ==
    /\ LoopAt(i, "timeout")
    /\ threads' = [threads EXCEPT !.loops[i] =
            IF Len(dm.recovery_history) = 0
            THEN [@ EXCEPT !.pc = "cleanup", !.strategy = None]
            ELSE [@ EXCEPT !.pc = "elapsed",
                           !.last_recovery = Some(Len(dm.recovery_history))]]
    /\ UNCHANGED <<inputs, last, rng, earlier, dm, now>>

\* elapsed_hours and its comparison with strategy.timeout_hours
loop_elapsed(i) ==
    /\ LoopAt(i, "elapsed")
    /\ threads' = [threads EXCEPT !.loops[i] =
            IF now - dm.recovery_history[threads.loops[i].last_recovery[1]].start_time
                  >= HeldStrategy(i).timeout_hours
            THEN [@ EXCEPT !.pc = "expire", !.strategy = None,
                           !.last_recovery = None]
            ELSE [@ EXCEPT !.pc = "cleanup", !.strategy = None,
                           !.last_recovery = None]]
    /\ UNCHANGED <<inputs, last, rng, earlier, dm, now>>

\* _timeout_recovery: if self.recovery_history, and
\* last_recovery = self.recovery_history[-1]
loop_expire(i) ==
    /\ LoopAt(i, "expire")
    /\ threads' = [threads EXCEPT !.loops[i] =
            IF Len(dm.recovery_history) = 0
            THEN [@ EXCEPT !.pc = "step_down"]
            ELSE [@ EXCEPT !.pc = "expire_end_time",
                           !.last_recovery = Some(Len(dm.recovery_history))]]
    /\ UNCHANGED <<inputs, last, rng, earlier, dm, now>>

\* last_recovery["end_time"] = datetime.now() of _timeout_recovery
loop_expire_end_time(i) ==
    /\ LoopAt(i, "expire_end_time")
    /\ dm' = SetKey(i, "end_time", Some(now))
    /\ threads' = [threads EXCEPT !.loops[i].pc = "expire_success"]
    /\ UNCHANGED <<inputs, last, rng, earlier, now>>

\* last_recovery["success"] = False
loop_expire_success(i) ==
    /\ LoopAt(i, "expire_success")
    /\ dm' = SetKey(i, "success", Some(FALSE))
    /\ threads' = [threads EXCEPT !.loops[i].pc = "expire_timeout"]
    /\ UNCHANGED <<inputs, last, rng, earlier, now>>

\* last_recovery["timeout"] = True
loop_expire_timeout(i) ==
    /\ LoopAt(i, "expire_timeout")
    /\ dm' = SetKey(i, "timeout", Some(TRUE))
    /\ threads' = [threads EXCEPT !.loops[i].pc = "expire_drawdown"]
    /\ UNCHANGED <<inputs, last, rng, earlier, now>>

\* last_recovery["final_drawdown"] = self.current_drawdown
loop_expire_drawdown(i) ==
    /\ LoopAt(i, "expire_drawdown")
    /\ dm' = SetKey(i, "final_drawdown", Some(dm.current_drawdown))
    /\ threads' = [threads EXCEPT !.loops[i] =
            [@ EXCEPT !.pc = "step_down", !.last_recovery = None]]
    /\ UNCHANGED <<inputs, last, rng, earlier, now>>

\* if self.current_recovery_mode == RecoveryMode.AGGRESSIVE
loop_step_down(i) ==
    /\ LoopAt(i, "step_down")
    /\ threads' = [threads EXCEPT !.loops[i].pc =
            IF dm.current_recovery_mode = "aggressive" THEN "to_conservative"
            ELSE "step_down_again"]
    /\ UNCHANGED <<inputs, last, rng, earlier, dm, now>>

\* elif self.current_recovery_mode == RecoveryMode.CONSERVATIVE
loop_step_down_again(i) ==
    /\ LoopAt(i, "step_down_again")
    /\ threads' = [threads EXCEPT !.loops[i].pc =
            IF dm.current_recovery_mode = "conservative" THEN "to_defensive"
            ELSE "to_normal"]
    /\ UNCHANGED <<inputs, last, rng, earlier, dm, now>>

\* the assignment of the stepped-down mode in _timeout_recovery;
\* check_recovery_completion returns
loop_set_mode(i) ==
    /\ i \in DOMAIN threads.loops
    /\ threads.loops[i].pc \in {"to_conservative", "to_defensive", "to_normal"}
    /\ dm' = [dm EXCEPT !.current_recovery_mode =
            IF threads.loops[i].pc = "to_conservative" THEN "conservative"
            ELSE IF threads.loops[i].pc = "to_defensive" THEN "defensive"
            ELSE "normal"]
    /\ threads' = [threads EXCEPT !.loops[i].pc = "cleanup"]
    /\ UNCHANGED <<inputs, last, rng, earlier, now>>

\* cutoff_date = datetime.now() - timedelta(days=max_age_days)
loop_cleanup(i) ==
    /\ LoopAt(i, "cleanup")
    /\ threads' = [threads EXCEPT !.loops[i] =
            [@ EXCEPT !.pc = "filter", !.cutoff_date = Some(now - MaxAlertAge)]]
    /\ UNCHANGED <<inputs, last, rng, earlier, dm, now>>

\* the new list of _cleanup_old_alerts
YoungAlerts(alert_history, cutoff_date) ==
    SelectSeq(alert_history, LAMBDA alert : alert.timestamp > cutoff_date)

\* the list comprehension of _cleanup_old_alerts
loop_filter(i) ==
    /\ LoopAt(i, "filter")
    /\ threads' = [threads EXCEPT !.loops[i] =
            [@ EXCEPT !.pc = "store",
                      !.cutoff_date = None,
                      !.kept = YoungAlerts(dm.alert_history,
                                           threads.loops[i].cutoff_date[1])]]
    /\ UNCHANGED <<inputs, last, rng, earlier, dm, now>>

\* the assignment self.alert_history = [...] of _cleanup_old_alerts, and
\* time.sleep begins
loop_store(i) ==
    /\ LoopAt(i, "store")
    /\ dm' = [dm EXCEPT !.alert_history = threads.loops[i].kept]
    /\ threads' = [threads EXCEPT !.loops[i] =
            [@ EXCEPT !.pc = "sleeping", !.kept = <<>>]]
    /\ UNCHANGED <<inputs, last, rng, earlier, now>>

\* time.sleep(interval_seconds) returns
loop_wake(i) ==
    /\ LoopAt(i, "sleeping")
    /\ threads' = [threads EXCEPT !.loops[i].pc = "test"]
    /\ UNCHANGED <<inputs, last, rng, earlier, dm, now>>

\* update_equity of the caller thread beside the monitoring, up to
\* timestamp = datetime.now()
monitored_update_equity(equity) ==
    /\ threads.caller = "ready"
    /\ Len(dm.equity_history) < MaxMonitorUpdates
    /\ threads' = [threads EXCEPT
            !.caller = "history",
            !.call = [op |-> "update_equity", equity |-> equity,
                      timestamp |-> now, callback |-> 1, before |-> dm]]
    /\ UNCHANGED <<inputs, last, rng, earlier, dm, now>>

\* self.equity_history.append((timestamp, equity)) and the size limit
caller_history ==
    /\ threads.caller = "history"
    /\ dm' = append_equity(dm, threads.call.equity, threads.call.timestamp)
    /\ threads' = [threads EXCEPT !.caller = "peak"]
    /\ UNCHANGED <<inputs, last, rng, earlier, now>>

\* the peak check of update_equity and, for a new peak, _update_peak up to
\* the end of the underwater period
caller_peak ==
    /\ threads.caller = "peak"
    /\ IF RGt(threads.call.equity, dm.current_peak)
       THEN /\ dm' = end_underwater_period(
                        [dm EXCEPT !.current_peak = threads.call.equity],
                        threads.call.timestamp)
            /\ threads' = [threads EXCEPT !.caller = "peak_callbacks"]
       ELSE /\ dm' = dm
            /\ threads' = [threads EXCEPT !.caller = "drawdown"]
    /\ UNCHANGED <<inputs, last, rng, earlier, now>>

\* the caller after the call of one callback of the event: at the
\* statement next when the for loop has ended, else at the next callback
AfterCallback(event_type, next) ==
    IF CallbacksEnd(dm, event_type, threads.call.callback)
    THEN [threads EXCEPT !.caller = next, !.call.callback = 1]
    ELSE [threads EXCEPT !.call.callback = @ + 1]

\* self._execute_callbacks("peak_updated", ...) of _update_peak: the call
\* of one callback
caller_peak_callbacks ==
    /\ threads.caller = "peak_callbacks"
    /\ dm' = CallCallback(dm, "peak_updated", threads.call.callback)
    /\ threads' = AfterCallback("peak_updated", "drawdown")
    /\ UNCHANGED <<inputs, last, rng, earlier, now>>

\* self.current_drawdown = self._calculate_current_drawdown(equity)
caller_drawdown ==
    /\ threads.caller = "drawdown"
    /\ dm' = [dm EXCEPT !.current_drawdown =
                calculate_current_drawdown(dm, threads.call.equity)]
    /\ threads' = [threads EXCEPT !.caller = "level"]
    /\ UNCHANGED <<inputs, last, rng, earlier, now>>

\* the level check of update_equity and, when the level has changed,
\* _handle_level_change up to self.alert_history.append(alert)
caller_level ==
    /\ threads.caller = "level"
    /\ IF determine_drawdown_level(dm, dm.current_drawdown) # dm.current_level
       THEN /\ dm' = [dm EXCEPT
                        !.current_level =
                            determine_drawdown_level(dm, dm.current_drawdown),
                        !.alert_history =
                            Append(@, create_alert(
                                dm, determine_drawdown_level(dm, dm.current_drawdown),
                                threads.call.timestamp))]
            /\ threads' = [threads EXCEPT !.caller = "adjust"]
       ELSE /\ dm' = dm
            /\ threads' = [threads EXCEPT !.caller = "underwater"]
    /\ UNCHANGED <<inputs, last, rng, earlier, now>>

\* self._adjust_recovery_strategy(new_level) of _handle_level_change
caller_adjust ==
    /\ threads.caller = "adjust"
    /\ dm' = adjust_recovery_strategy(dm, dm.current_level)
    /\ threads' = [threads EXCEPT !.caller = "level_callbacks"]
    /\ UNCHANGED <<inputs, last, rng, earlier, now>>

\* the callbacks of _handle_level_change: the call of one callback;
\* callback_key is no key of self.callbacks for the normal level
caller_level_callbacks ==
    /\ threads.caller = "level_callbacks"
    /\ dm' = CallCallback(dm, callback_key(dm.current_level),
                          threads.call.callback)
    /\ threads' = AfterCallback(callback_key(dm.current_level), "underwater")
    /\ UNCHANGED <<inputs, last, rng, earlier, now>>

\* the rest of update_equity: the underwater period and the metrics it
\* returns
caller_underwater ==
    /\ threads.caller = "underwater"
    /\ dm' = manage_underwater_period(dm, threads.call.timestamp)
    /\ last' = [op |-> "update_equity",
                equity |-> threads.call.equity,
                before |-> threads.call.before,
                result |-> calculate_drawdown_metrics(
                               manage_underwater_period(dm, threads.call.timestamp),
                               threads.call.timestamp)]
    /\ threads' = [threads EXCEPT !.caller = "ready", !.call = NoFrame]
    /\ UNCHANGED <<inputs, rng, earlier, now>>

\* start_recovery_mode of the caller thread beside the monitoring, up to
\* old_mode = self.current_recovery_mode
monitored_start_recovery_mode(mode, target) ==
    /\ threads.caller = "ready"
    /\ Len(dm.recovery_history) < MaxMonitorRecoveries
    /\ IF mode \notin DOMAIN dm.recovery_strategies
       THEN /\ last' = [op |-> "start_recovery_mode", mode |-> mode,
                        target |-> target, before |-> dm, result |-> FALSE]
            /\ threads' = threads
       ELSE /\ threads' = [threads EXCEPT
                    !.caller = "set_mode",
                    !.call = [op |-> "start_recovery_mode", mode |-> mode,
                              target |-> target,
                              old_mode |-> dm.current_recovery_mode,
                              record |-> None, callback |-> 1,
                              before |-> dm]]
            /\ last' = last
    /\ UNCHANGED <<inputs, rng, earlier, dm, now>>

\* self.current_recovery_mode = mode
caller_set_mode ==
    /\ threads.caller = "set_mode"
    /\ dm' = [dm EXCEPT !.current_recovery_mode = threads.call.mode]
    /\ threads' = [threads EXCEPT !.caller = "set_target"]
    /\ UNCHANGED <<inputs, last, rng, earlier, now>>

\* if target: self.recovery_strategies[mode].recovery_target = target
caller_set_target ==
    /\ threads.caller = "set_target"
    /\ dm' = [dm EXCEPT !.recovery_strategies =
                WithTarget(@, threads.call.mode, threads.call.target)]
    /\ threads' = [threads EXCEPT !.caller = "record"]
    /\ UNCHANGED <<inputs, last, rng, earlier, now>>

\* recovery_record = {...}, with start_time datetime.now()
caller_record ==
    /\ threads.caller = "record"
    /\ threads' = [threads EXCEPT
            !.caller = "append",
            !.call.record = Some(RecoveryRecord(
                now, threads.call.mode, threads.call.old_mode,
                dm.recovery_strategies[threads.call.mode].recovery_target,
                dm.current_drawdown))]
    /\ UNCHANGED <<inputs, last, rng, earlier, dm, now>>

\* self.recovery_history.append(recovery_record)
caller_append ==
    /\ threads.caller = "append"
    /\ dm' = [dm EXCEPT !.recovery_history = Append(@, threads.call.record[1])]
    /\ threads' = [threads EXCEPT !.caller = "started_callbacks"]
    /\ UNCHANGED <<inputs, last, rng, earlier, now>>

\* self._execute_callbacks("recovery_started", recovery_record): the call
\* of one callback
caller_started_callbacks ==
    /\ threads.caller = "started_callbacks"
    /\ dm' = CallCallback(dm, "recovery_started", threads.call.callback)
    /\ threads' = AfterCallback("recovery_started", "log")
    /\ UNCHANGED <<inputs, last, rng, earlier, now>>

\* the message logged last, which fails for target None, and the value
\* start_recovery_mode returns
caller_log ==
    /\ threads.caller = "log"
    /\ last' = [op |-> "start_recovery_mode",
                mode |-> threads.call.mode,
                target |-> threads.call.target,
                before |-> threads.call.before,
                result |-> StartRecoveryModeResult(
                               threads.call.before, threads.call.mode,
                               threads.call.target)]
    /\ threads' = [threads EXCEPT !.caller = "ready", !.call = NoFrame]
    /\ UNCHANGED <<inputs, rng, earlier, dm, now>>

\* equity values of a critical drawdown, which has no callback, of a
\* warning drawdown and of a new peak, in thousands
MonitorEquityVals == {Rat(88, 1), Rat(94, 1), Rat(106, 1)}

\* the recoveries a caller starts beside the monitoring: mode and target
MonitorRecoveries ==
    {<<"aggressive", Some(Rat(5, 100))>>, <<"conservative", Some(Rat(10, 100))>>}

\* the events a caller has registered callbacks for before the
\* monitoring, in the order of the add_callback calls: two callbacks for
\* each of the four events
MonitoredEvents ==
    <<"peak_updated", "drawdown_warning", "recovery_started",
      "recovery_completed", "peak_updated", "drawdown_warning",
      "recovery_started", "recovery_completed">>

\* the manager after add_callback(event_type, callback) for the events
\* from the k-th on
RECURSIVE WithCallbacks(_, _)
WithCallbacks(self, k) ==
    IF k > Len(MonitoredEvents) THEN self
    ELSE WithCallbacks(
            AddCallback(self, MonitoredEvents[k],
                        [name |-> IF k <= 4 THEN "first" ELSE "second",
                         raises |-> FALSE]),
            k + 1)

InitMonitor ==
    /\ portfolio_value = Rat(DefaultPortfolioValue, 1)
    /\ returns = <<>>
    /\ assets_returns = <<>>
    /\ var_estimates = <<>>
    /\ last = NoCall
    /\ rng = SeedPosition
    /\ threads = [caller |-> "ready", call |-> NoFrame, loops |-> <<>>,
                  refused |-> 0]
    /\ earlier = None
    /\ dm = NewManager
    /\ now = 0

\* the manager with its monitoring started and stopped, and no other call:
\* the recovery mode stays normal, so the loops never enter
\* check_recovery_completion
NextMonitor ==
    \/ StartsMade < MaxStarts /\ start_monitoring
    \/ stop_monitoring
    \/ join_returns
    \/ \E i \in LoopIds : loop_test(i)
    \/ \E i \in LoopIds : loop_body(i)
    \/ \E i \in LoopIds : loop_cleanup(i)
    \/ \E i \in LoopIds : loop_filter(i)
    \/ \E i \in LoopIds : loop_store(i)
    \/ \E i \in LoopIds : loop_wake(i)

SpecMonitor == InitMonitor /\ [][NextMonitor]_vars

\* one monitoring thread beside a caller that updates the equity and
\* starts a recovery
NextMonitored ==
    \/ StartsMade < 1 /\ start_monitoring
    \/ \E equity \in MonitorEquityVals : monitored_update_equity(equity)
    \/ \E recovery \in MonitorRecoveries :
          monitored_start_recovery_mode(recovery[1], recovery[2])
    \/ advance_clock(MaxAlertAge)
    \/ caller_history
    \/ caller_peak
    \/ caller_peak_callbacks
    \/ caller_drawdown
    \/ caller_level
    \/ caller_adjust
    \/ caller_level_callbacks
    \/ caller_underwater
    \/ caller_set_mode
    \/ caller_set_target
    \/ caller_record
    \/ caller_append
    \/ caller_started_callbacks
    \/ caller_log
    \/ \E i \in LoopIds : loop_test(i)
    \/ \E i \in LoopIds : loop_body(i)
    \/ \E i \in LoopIds : loop_get_strategy(i)
    \/ \E i \in LoopIds : loop_check(i)
    \/ \E i \in LoopIds : loop_complete(i)
    \/ \E i \in LoopIds : loop_end_time(i)
    \/ \E i \in LoopIds : loop_success(i)
    \/ \E i \in LoopIds : loop_final_drawdown(i)
    \/ \E i \in LoopIds : loop_completed_callbacks(i)
    \/ \E i \in LoopIds : loop_reset_mode(i)
    \/ \E i \in LoopIds : loop_timeout(i)
    \/ \E i \in LoopIds : loop_elapsed(i)
    \/ \E i \in LoopIds : loop_expire(i)
    \/ \E i \in LoopIds : loop_expire_end_time(i)
    \/ \E i \in LoopIds : loop_expire_success(i)
    \/ \E i \in LoopIds : loop_expire_timeout(i)
    \/ \E i \in LoopIds : loop_expire_drawdown(i)
    \/ \E i \in LoopIds : loop_step_down(i)
    \/ \E i \in LoopIds : loop_step_down_again(i)
    \/ \E i \in LoopIds : loop_set_mode(i)
    \/ \E i \in LoopIds : loop_cleanup(i)
    \/ \E i \in LoopIds : loop_filter(i)
    \/ \E i \in LoopIds : loop_store(i)
    \/ \E i \in LoopIds : loop_wake(i)

\* a manager with two callbacks registered for each event of the calls
\* below, after a first update_equity(100) at hour 0, made before any
\* thread is started
InitMonitored ==
    /\ portfolio_value = Rat(DefaultPortfolioValue, 1)
    /\ returns = <<>>
    /\ assets_returns = <<>>
    /\ var_estimates = <<>>
    /\ last = NoCall
    /\ rng = SeedPosition
    /\ threads = [caller |-> "ready", call |-> NoFrame, loops |-> <<>>,
                  refused |-> 0]
    /\ earlier = None
    /\ dm = UpdateEquity(WithCallbacks(NewManager, 1), Rat(100, 1), 0)
    /\ now = 0

SpecMonitored == InitMonitored /\ [][NextMonitored]_vars

-----------------------------------------------------------------------------
(* A long run of equity updates                                            *)
(*                                                                         *)
(* The caller calls update_equity(equity, timestamp) once an hour, the     *)
(* k-th call at hour k.  The run is followed from the point where the      *)
(* history is about to reach its limit: the manager has taken a first      *)
(* update and then updates of one lower equity.                            *)

MaxLongRun == 3                  \* update_equity calls followed one by one

\* equity values of a long run, in thousands
LongRunEquityVals == {Rat(100, 1), Rat(90, 1), Rat(85, 1)}

\* the number of updates made before the run is followed
LongRunStarts == {HistoryLimit - 2, HistoryLimit - 1}

\* the manager after the calls update_equity(equity, t) for t = from..to,
\* taken by halves (see MaxDrawdownOver)
RECURSIVE HourlyUpdates(_, _, _, _)
HourlyUpdates(self, from, to, equity) ==
    IF from > to THEN self
    ELSE IF from = to THEN UpdateEquity(self, equity, from)
    ELSE CHOOSE after \in
            {HourlyUpdates(first, (from + to) \div 2 + 1, to, equity) :
                first \in {HourlyUpdates(self, from, (from + to) \div 2,
                                         equity)}} : TRUE

\* update_equity(equity, timestamp) at the next hour
hourly_update_equity(equity) ==
    /\ dm # None
    /\ \E start \in LongRunStarts : now < start + MaxLongRun
    /\ now' = now + 1
    /\ dm' = UpdateEquity(dm, equity, now + 1)
    /\ last' = [op |-> "update_equity",
                equity |-> equity,
                before |-> dm,
                result |-> calculate_drawdown_metrics(
                               UpdateEquity(dm, equity, now + 1), now + 1)]
    /\ UNCHANGED <<inputs, rng, threads, earlier>>

InitLongRun ==
    /\ portfolio_value = Rat(DefaultPortfolioValue, 1)
    /\ returns = <<>>
    /\ assets_returns = <<>>
    /\ var_estimates = <<>>
    /\ last = NoCall
    /\ rng = SeedPosition
    /\ threads = <<>>
    /\ earlier = None
    /\ now \in LongRunStarts
    /\ \E first \in {Rat(100, 1), Rat(90, 1)} :
          dm = HourlyUpdates(UpdateEquity(NewManager, first, 1), 2, now,
                             Rat(90, 1))

NextLongRun == \E equity \in LongRunEquityVals : hourly_update_equity(equity)

SpecLongRun == InitLongRun /\ [][NextLongRun]_vars

-----------------------------------------------------------------------------
(* Properties of the historical estimator                                  *)

IsHistCall == last.op = "calculate_historical_var"
Returned == last.op # "none" /\ last.result.status = "ok"

\* the k-th smallest value (k = 1..Len) of a series: the ascending order
\* statistic, stated without reference to a sorting procedure
OrderStat(arr, k) ==
    CHOOSE x \in {arr[i] : i \in DOMAIN arr} :
        /\ Cardinality({i \in DOMAIN arr : RLt(arr[i], x)}) < k
        /\ Cardinality({i \in DOMAIN arr : RLe(arr[i], x)}) >= k

RCeil(a) == IF a.n % a.d = 0 THEN a.n \div a.d ELSE (a.n \div a.d) + 1

\* the (1-c)*100-th percentile under the linear rule of the specification
LinearRuleQuantile(arr, c) ==
    LET position == RMul(RSub(One, c), Rat(Len(arr) - 1, 1))
        lo == OrderStat(arr, RFloor(position) + 1)
        hi == OrderStat(arr, RCeil(position) + 1)
        frac == RSub(position, Rat(RFloor(position), 1))
    IN  RAdd(lo, RMul(frac, RSub(hi, lo)))

\* the portfolio value V > 0 a call was made with (the calculator's own
\* when the argument is omitted); Zero when the argument is not positive
CallValue ==
    IF last.portfolio_value = None THEN portfolio_value
    ELSE IF RGt(last.portfolio_value[1], Zero) THEN last.portfolio_value[1]
    ELSE Zero

\* C1: for a non-empty series, a confidence c and a portfolio value V > 0,
\* calculate_historical_var returns var_value = |q * V| and var_percentage =
\* |q| * 100 with q the linear-rule percentile at (1-c)*100; for the sample
\* series, c = 0.95 and V = 1,000,000: q = -0.041 and var_value = 41,000.
C1_HistoricalVarFormula ==
    (IsHistCall /\ Len(returns) > 0 /\ RGt(CallValue, Zero)) =>
        LET q == LinearRuleQuantile(AsArray(returns), last.confidence_level)
        IN  /\ Returned
            /\ last.result.var_value = RAbs(RMul(q, CallValue))
            /\ last.result.var_percentage = RMul(RAbs(q), Rat(100, 1))
            /\ (/\ returns = SampleReturns
                /\ last.confidence_level = Rat(95, 100)
                /\ CallValue = Rat(1000000, 1))
               => /\ q = Rat(-41, 1000)
                  /\ last.result.var_value = Rat(41000, 1)

\* the sample scenario has been computed, between two order statistics
C1_Witness ==
    /\ IsHistCall /\ Returned
    /\ returns = SampleReturns
    /\ last.confidence_level = Rat(95, 100)
    /\ last.portfolio_value = None
    /\ last.result.var_value = Rat(41000, 1)
    /\ last.result.var_percentage = Rat(41, 10)

\* C2: monotonicity of the historical estimator: for fixed data and
\* portfolio value, c1 < c2 implies var_value(c1) <= var_value(c2).
\* Stated over two successive calls on the same data.
C2_Monotonicity ==
    [][(/\ IsHistCall /\ Returned
        /\ last'.op = "calculate_historical_var"
        /\ last'.result.status = "ok"
        /\ last'.portfolio_value = last.portfolio_value
        /\ RLt(last.confidence_level, last'.confidence_level))
       => RLe(last.result.var_value, last'.result.var_value)]_vars

-----------------------------------------------------------------------------
(* Properties of the four single-asset estimators                          *)

EstimatorOps == {"calculate_historical_var", "calculate_parametric_var",
                 "calculate_monte_carlo_var", "calculate_hybrid_var"}

\* C3: tail ordering: whenever the tail set used for CVaR is non-empty, the
\* historical and the Monte Carlo estimator return cvar_value >= var_value.
C3_TailOrdering ==
    (/\ last.op \in {"calculate_historical_var", "calculate_monte_carlo_var"}
     /\ Returned
     /\ last.result.additional_stats.tail_observations > 0)
    => RGe(last.result.cvar_value, last.result.var_value)

\* C4: non-negativity: for a non-empty series every method, the hybrid one
\* with any weight mapping, returns var_value >= 0 and cvar_value >= 0.
C4_NonNegativity ==
    (last.op \in EstimatorOps /\ Len(returns) > 0 /\ Returned)
    => /\ RGe(last.result.var_value, Zero)
       /\ RGe(last.result.cvar_value, Zero)

\* C5: each of the four estimators called with an empty series raises
\* ValueError and returns no result, whatever the other arguments are.
C5_EmptyInputRaises ==
    (last.op \in EstimatorOps /\ Len(returns) = 0)
    => last.result = ValueError

\* the hybrid estimator has rejected an empty series passed with weights
C5_Witness ==
    /\ last.op = "calculate_hybrid_var"
    /\ returns = <<>>
    /\ last.weights # None
    /\ last.portfolio_value # None
    /\ last.result.status = "ValueError"

-----------------------------------------------------------------------------
(* Properties of the portfolio aggregator                                  *)

IsPortfolioCall == last.op = "calculate_portfolio_var"

\* the portfolio value of a portfolio call
PortfolioCallValue == OrElse(last.portfolio_value, portfolio_value)

\* the base-method VaR of a series per unit of portfolio value
UnitVar(method, rets, c) == BaseVar(method, rets, c, Some(One), One).var_value

\* C6: individual_vars[a] is the base-method VaR of a's series at portfolio
\* value portfolio_value * weights[a], for every weight including 0: it is
\* linear in the weight and 0 for weight 0.
C6_IndividualVarAtWeightedValue ==
    (IsPortfolioCall /\ Returned) =>
        \A a \in DOMAIN assets_returns.values :
            last.result.individual_vars[a] =
                RMul(UnitVar(last.method, AsArray(assets_returns.values[a]),
                             last.confidence_level),
                     RMul(PortfolioCallValue, last.weights[a]))

\* the first k returns of a series
Prefix(rs, k) == SubSeq(rs, 1, k)

\* C7: series of differing lengths are accepted: the call does not fail and
\* computes the correlation matrix and the weighted portfolio returns over
\* the first L periods, L the shortest length.
C7_TruncatesToShortest ==
    (/\ IsPortfolioCall
     /\ Len(assets_returns.keys) > 0
     /\ DOMAIN assets_returns.values \subseteq DOMAIN last.weights
     /\ \A a \in DOMAIN assets_returns.values :
           Len(assets_returns.values[a]) > 0)
    => LET L == MinLength(assets_returns)
           names == AssetNames(assets_returns)
           truncated == [a \in DOMAIN assets_returns.values |->
                            Prefix(assets_returns.values[a], L)]
           window == PortfolioReturns(Dict(names, truncated), last.weights)
       IN  /\ Returned
           /\ last.result.correlation_matrix =
                 CorrCoef([k \in DOMAIN names |-> AsArray(truncated[names[k]])])
           /\ last.result.portfolio_var =
                 RMul(UnitVar(last.method, window, last.confidence_level),
                      PortfolioCallValue)

\* two assets with equal weights, the second series the negation of the
\* (non-empty) first
NegatedPair ==
    /\ IsPortfolioCall
    /\ DOMAIN assets_returns.values = {"Asset1", "Asset2"}
    /\ Len(assets_returns.values["Asset1"]) > 0
    /\ Len(assets_returns.values["Asset2"]) = Len(assets_returns.values["Asset1"])
    /\ \A i \in DOMAIN assets_returns.values["Asset1"] :
          assets_returns.values["Asset2"][i] = -assets_returns.values["Asset1"][i]
    /\ last.weights = [Asset1 |-> Rat(1, 2), Asset2 |-> Rat(1, 2)]

SumIndividualVars ==
    RAdd(last.result.individual_vars["Asset1"],
         last.result.individual_vars["Asset2"])

\* C8 as stated: for a negated pair with weights 0.5/0.5 and either base
\* method, portfolio_var < sum of the individual VaRs and
\* diversification_benefit = sum - portfolio_var > 0.
C8_StrictDiversification ==
    NegatedPair =>
        /\ Returned
        /\ RLt(last.result.portfolio_var, SumIndividualVars)
        /\ last.result.diversification_benefit =
              RSub(SumIndividualVars, last.result.portfolio_var)
        /\ RGt(last.result.diversification_benefit, Zero)

\* C8 (amended): for a negated pair with weights 0.5/0.5 and either base
\* method, portfolio_var = 0 and diversification_benefit = sum of the
\* individual VaRs - portfolio_var >= 0; portfolio_var < sum and benefit > 0
\* hold exactly when some individual VaR is not 0.
C8_Diversification ==
    NegatedPair =>
        /\ Returned
        /\ last.result.portfolio_var = Zero
        /\ last.result.diversification_benefit =
              RSub(SumIndividualVars, last.result.portfolio_var)
        /\ RGe(last.result.diversification_benefit, Zero)
        /\ (\/ RGt(last.result.individual_vars["Asset1"], Zero)
            \/ RGt(last.result.individual_vars["Asset2"], Zero))
           <=> /\ RLt(last.result.portfolio_var, SumIndividualVars)
               /\ RGt(last.result.diversification_benefit, Zero)

\* a negated pair of two periods with a strictly positive benefit
C8_Witness ==
    /\ NegatedPair /\ Returned
    /\ assets_returns.values["Asset1"] = <<2, -2>>
    /\ last.method = "historical"
    /\ RGt(last.result.diversification_benefit, Zero)
    /\ RGt(last.result.individual_vars["Asset2"], Zero)

-----------------------------------------------------------------------------
(* Properties of the backtest validator                                    *)

IsValidateCall == last.op = "validate_var_model"

\* the periods whose realized return lies strictly below -estimate
ViolationPeriods ==
    {i \in DOMAIN returns : returns[i] < -var_estimates[i]}

\* C9: for series of equal length n, violations is the number of periods
\* with returns[i] < -var_estimates[i] (strict), total_observations = n,
\* 0 <= violations <= total_observations and violation_rate =
\* violations / total_observations.
C9_ViolationCount ==
    (IsValidateCall /\ Len(returns) = Len(var_estimates)) =>
        /\ Returned
        /\ last.result.violations = Cardinality(ViolationPeriods)
        /\ last.result.total_observations = Len(returns)
        /\ 0 <= last.result.violations
        /\ last.result.violations <= last.result.total_observations
        /\ Len(returns) > 0 =>
              RMul(last.result.violation_rate,
                   Rat(last.result.total_observations, 1))
                 = Rat(last.result.violations, 1)

\* a backtest with a violation and with a loss equal to its estimate,
\* which is not counted
C9_Witness ==
    /\ IsValidateCall /\ Returned
    /\ Len(returns) = 3
    /\ \E i \in DOMAIN returns : returns[i] = -var_estimates[i] /\ returns[i] < 0
    /\ last.result.violations = 1
    /\ last.result.violation_rate = Rat(1, 3)

\* C10: when no period is a violation, validate_var_model returns
\* violations = 0, violation_rate = 0, kupiec_statistic = 0.0,
\* kupiec_p_value = 1.0 and is_model_valid = true, at every confidence level.
C10_ZeroViolations ==
    (/\ IsValidateCall
     /\ Len(returns) = Len(var_estimates)
     /\ ViolationPeriods = {})
    => /\ Returned
       /\ last.result.violations = 0
       /\ last.result.violation_rate = Zero
       /\ last.result.kupiec_statistic = Zero
       /\ last.result.kupiec_p_value = One
       /\ last.result.is_model_valid = TRUE

\* C11: every operation treats an empty return series as an error; in
\* particular validate_var_model called with an empty realized-return series
\* and an empty estimate series fails instead of returning a result.
C11_EmptyBacktestIsError ==
    (IsValidateCall /\ Len(returns) = 0 /\ Len(var_estimates) = 0)
        => last.result.status # "ok"

\* C12: validate_var_model fails with ValueError, producing no result,
\* exactly when the return series and the estimate series differ in length.
C12_LengthMismatchRaises ==
    IsValidateCall =>
        /\ Len(returns) # Len(var_estimates)
              => last.result = ValueError
        /\ Len(returns) = Len(var_estimates)
              => last.result.status = "ok"

\* a backtest rejected although its return series is the shorter one
C12_Witness ==
    /\ IsValidateCall
    /\ Len(returns) = 1 /\ Len(var_estimates) = 2
    /\ last.result = ValueError

-----------------------------------------------------------------------------
(* Properties of the Monte Carlo generator                                 *)

\* the result of the call of thread t when no other thread runs
Alone(t) ==
    IF threads[t].op = "calculate_monte_carlo_var"
    THEN MonteCarloVar(AsArray(returns), threads[t].confidence_level,
                       threads[t].simulations, None, portfolio_value, rng)
    ELSE HybridVar(AsArray(returns), threads[t].confidence_level, None, None,
                   portfolio_value, rng)

\* C13: the estimators are safe to call concurrently: under every
\* interleaving of the seed and sampling steps of two threads, each call of
\* calculate_monte_carlo_var or calculate_hybrid_var returns the var_value
\* and cvar_value it returns when run alone.
C13_ConcurrentCallsAgree ==
    \A t \in DOMAIN threads :
        (threads[t].pc = "done" /\ threads[t].result.status = "ok") =>
            /\ threads[t].result.var_value = Alone(t).var_value
            /\ threads[t].result.cvar_value = Alone(t).cvar_value

IsMonteCarloCall == last.op = "calculate_monte_carlo_var"

SameArguments(a, b) ==
    /\ a.confidence_level = b.confidence_level
    /\ a.simulations = b.simulations
    /\ a.portfolio_value = b.portfolio_value

\* C14: two sequential calls of calculate_monte_carlo_var with the same
\* series, confidence level, simulation count and portfolio value return
\* identical var_value, cvar_value, simulated_mean and simulated_std,
\* whatever calls ran between them.
C14_MonteCarloDeterminism ==
    (/\ IsMonteCarloCall
     /\ earlier # None
     /\ SameArguments(earlier[1].first, last))
    => /\ last.result.status = earlier[1].first.result.status
       /\ Returned =>
          /\ last.result.var_value = earlier[1].first.result.var_value
          /\ last.result.cvar_value = earlier[1].first.result.cvar_value
          /\ last.result.additional_stats.simulated_mean
                = earlier[1].first.result.additional_stats.simulated_mean
          /\ last.result.additional_stats.simulated_std
                = earlier[1].first.result.additional_stats.simulated_std

\* a Monte Carlo call repeated after at least one other call
C14_Witness ==
    /\ IsMonteCarloCall /\ Returned
    /\ earlier # None
    /\ earlier[1].between >= 2
    /\ SameArguments(earlier[1].first, last)
    /\ Len(returns) > 1
    /\ last.simulations = 10000

-----------------------------------------------------------------------------
(* Properties of the recovery modes                                        *)

IsCheckCall == last.op = "check_recovery_completion"

\* the latest recovery record of a manager
LatestRecovery(self) == self.recovery_history[Len(self.recovery_history)]

\* a recovery has been recorded and is not finished
HasOpenRecovery(self) ==
    /\ Len(self.recovery_history) > 0
    /\ LatestRecovery(self).end_time = None

\* hours between the start of the latest recovery and the check
ElapsedAtCheck == last.clock - LatestRecovery(last.before).start_time

\* C15: once update_equity calls have brought current_drawdown to a value
\* <= the target T of a recorded, unfinished recovery, the next
\* check_recovery_completion returns True, sets current_recovery_mode to
\* NORMAL and marks the record with success = True and an end_time; while
\* current_drawdown > T and no timeout has elapsed it returns False and
\* leaves the record unfinished.
C15_RecoveryCompletion ==
    (IsCheckCall /\ HasOpenRecovery(last.before)) =>
        /\ RLe(last.before.current_drawdown, LatestRecovery(last.before).target)
              => /\ last.result = TRUE
                 /\ dm.current_recovery_mode = "normal"
                 /\ LatestRecovery(dm).success = Some(TRUE)
                 /\ LatestRecovery(dm).end_time # None
        /\ (/\ RGt(last.before.current_drawdown,
                   LatestRecovery(last.before).target)
            /\ ElapsedAtCheck
                  < last.before.recovery_strategies[
                        LatestRecovery(last.before).mode].timeout_hours
            /\ ElapsedAtCheck < get_recovery_strategy(last.before).timeout_hours)
              => /\ last.result = FALSE
                 /\ LatestRecovery(dm) = LatestRecovery(last.before)

\* position_size_multiplier of the strategy of a mode
Multiplier(self, mode) == self.recovery_strategies[mode].position_size_multiplier

\* C16: check_recovery_completion called with current_drawdown above the
\* current strategy's recovery_target, and at least timeout_hours after the
\* start of the latest recovery, returns False, marks the latest record
\* success = False and timeout = True, turns AGGRESSIVE into CONSERVATIVE
\* and CONSERVATIVE into DEFENSIVE, and never moves to a mode with a larger
\* position_size_multiplier than the mode that timed out.
C16_RecoveryTimeout ==
    (/\ IsCheckCall
     /\ Len(last.before.recovery_history) > 0
     /\ RGt(last.before.current_drawdown,
            get_recovery_strategy(last.before).recovery_target)
     /\ ElapsedAtCheck >= get_recovery_strategy(last.before).timeout_hours)
    => /\ last.result = FALSE
       /\ LatestRecovery(dm).success = Some(FALSE)
       /\ LatestRecovery(dm).timeout = Some(TRUE)
       /\ last.before.current_recovery_mode = "aggressive"
             => dm.current_recovery_mode = "conservative"
       /\ last.before.current_recovery_mode = "conservative"
             => dm.current_recovery_mode = "defensive"
       /\ RLe(Multiplier(dm, dm.current_recovery_mode),
              Multiplier(dm, last.before.current_recovery_mode))

-----------------------------------------------------------------------------
(* Properties of update_equity                                             *)

IsUpdateCall == last.op = "update_equity"

\* the level the thresholds assign to a drawdown, thresholds inclusive
LevelOf(drawdown, thresholds) ==
    IF RGe(drawdown, thresholds.emergency) THEN "emergency"
    ELSE IF RGe(drawdown, thresholds.critical) THEN "critical"
    ELSE IF RGe(drawdown, thresholds.warning) THEN "warning"
    ELSE "normal"

\* C17: after every update_equity call current_level is the level of
\* current_drawdown: EMERGENCY from the emergency threshold on, else
\* CRITICAL from the critical threshold on, else WARNING from the warning
\* threshold on, else NORMAL.
C17_LevelMatchesDrawdown ==
    IsUpdateCall =>
        dm.current_level = LevelOf(dm.current_drawdown, dm.thresholds)

\* an update that puts the drawdown exactly on the warning threshold
C17_Witness ==
    /\ IsUpdateCall
    /\ dm.current_drawdown = Rat(5, 100)
    /\ dm.current_level = "warning"
    /\ last.before.current_level = "emergency"

\* the threshold an alert of a level carries: the configured one, 0.0 for
\* the normal level, which has none
AlertThreshold(level, thresholds) ==
    CASE level = "warning" -> thresholds.warning
      [] level = "critical" -> thresholds.critical
      [] level = "emergency" -> thresholds.emergency
      [] level = "normal" -> Zero

\* C18: update_equity appends exactly one alert if and only if it changes
\* current_level, the return to NORMAL included; the alert carries the new
\* level, the current drawdown, the threshold of that level and
\* acknowledged = False; an update that keeps the level leaves
\* alert_history unchanged.
C18_AlertOnLevelChange ==
    IsUpdateCall =>
        IF dm.current_level # last.before.current_level
        THEN /\ Len(dm.alert_history) = Len(last.before.alert_history) + 1
             /\ SubSeq(dm.alert_history, 1, Len(last.before.alert_history))
                   = last.before.alert_history
             /\ LET alert == dm.alert_history[Len(dm.alert_history)]
                IN  /\ alert.level = dm.current_level
                    /\ alert.current_drawdown = dm.current_drawdown
                    /\ alert.threshold
                          = AlertThreshold(dm.current_level, dm.thresholds)
                    /\ alert.acknowledged = FALSE
        ELSE dm.alert_history = last.before.alert_history

\* the alert of a return to the normal level, after an earlier alert
C18_Witness ==
    /\ IsUpdateCall
    /\ Len(dm.alert_history) = 2
    /\ dm.alert_history[1].level = "critical"
    /\ dm.alert_history[2].level = "normal"
    /\ dm.alert_history[2].threshold = Zero
    /\ last.before.current_level = "critical"

\* the recovery mode of a level
ModeOfLevel(level) ==
    CASE level = "normal" -> "normal"
      [] level = "warning" -> "conservative"
      [] level \in {"critical", "emergency"} -> "defensive"

\* C19: after every update_equity call that changes the level,
\* current_recovery_mode is the mode of the new level (NORMAL -> NORMAL,
\* WARNING -> CONSERVATIVE, CRITICAL and EMERGENCY -> DEFENSIVE), whatever
\* the mode was before the call.
C19_ModeFollowsLevel ==
    (IsUpdateCall /\ dm.current_level # last.before.current_level)
        => dm.current_recovery_mode = ModeOfLevel(dm.current_level)

\* a change from CRITICAL to EMERGENCY made in the AGGRESSIVE mode
C19_Witness ==
    /\ IsUpdateCall
    /\ last.before.current_level = "critical"
    /\ last.before.current_recovery_mode = "aggressive"
    /\ dm.current_level = "emergency"
    /\ dm.current_recovery_mode = "defensive"

\* the equity values supplied so far
SuppliedEquities == {dm.equity_history[i][2] : i \in DOMAIN dm.equity_history}

\* C20: current_peak is the maximum of 0 and all equity values supplied so
\* far; an update never decreases it, leaves it unchanged for an equity <=
\* current_peak, and for an equity > current_peak sets it to that equity
\* and current_drawdown to 0; current_drawdown is >= 0 after every update,
\* also for zero or negative equity.
C20_PeakTracking ==
    IsUpdateCall =>
        /\ dm.current_peak \in SuppliedEquities \cup {Zero}
        /\ \A e \in SuppliedEquities \cup {Zero} : RGe(dm.current_peak, e)
        /\ RGe(dm.current_peak, last.before.current_peak)
        /\ RLe(last.equity, last.before.current_peak)
              => dm.current_peak = last.before.current_peak
        /\ RGt(last.equity, last.before.current_peak)
              => /\ dm.current_peak = last.equity
                 /\ dm.current_drawdown = Zero
        /\ RGe(dm.current_drawdown, Zero)

\* a negative equity reported below a peak that an earlier update raised
C20_Witness ==
    /\ IsUpdateCall
    /\ last.equity = Rat(-1, 1)
    /\ dm.current_peak = Rat(105, 1)
    /\ Len(dm.equity_history) = 4
    /\ RGt(dm.current_drawdown, One)

\* C21: after every update_equity call underwater_start_date is set if and
\* only if current_drawdown > 0; the first update below the peak sets it
\* to the time of that update, further updates below the peak keep it, and
\* the update that reaches or exceeds the peak clears it.
C21_UnderwaterPeriod ==
    IsUpdateCall =>
        /\ (dm.underwater_start_date # None) <=> RGt(dm.current_drawdown, Zero)
        /\ (RGt(dm.current_drawdown, Zero)
              /\ last.before.underwater_start_date = None)
              => dm.underwater_start_date = Some(last.result.timestamp)
        /\ (RGt(dm.current_drawdown, Zero)
              /\ last.before.underwater_start_date # None)
              => dm.underwater_start_date = last.before.underwater_start_date
        /\ RGe(last.equity, last.before.current_peak)
              => dm.underwater_start_date = None

\* an update below the peak a day or more after the period began
C21_Witness ==
    /\ IsUpdateCall
    /\ last.before.underwater_start_date = Some(0)
    /\ last.result.timestamp = 48
    /\ RGt(dm.current_drawdown, Zero)
    /\ dm.underwater_start_date = Some(0)

-----------------------------------------------------------------------------
(* Properties of the callbacks                                             *)

\* the calls the callbacks have received during the latest call
InvokedByCall ==
    SubSeq(dm.invoked, Len(last.before.invoked) + 1, Len(dm.invoked))

\* the callbacks of a name registered for an event raise
Raises(self, call) ==
    \E i \in DOMAIN self.callbacks[call.event_type] :
        /\ self.callbacks[call.event_type][i].name = call.callback
        /\ self.callbacks[call.event_type][i].raises

\* a callback has raised during the latest call or an earlier one
CallbackRaised ==
    \E i \in DOMAIN dm.invoked : Raises(dm, dm.invoked[i])

\* C22: an update_equity call during which a callback raises, and every
\* later one, still returns its metrics and completes its state update:
\* the drawdown, the level of the drawdown, the alert and the recovery
\* mode of a changed level, and the underwater period.
C22_CallbackErrorIsolation ==
    (IsUpdateCall /\ CallbackRaised) =>
        /\ last.result.current_drawdown = dm.current_drawdown
        /\ dm.current_drawdown = calculate_current_drawdown(dm, last.equity)
        /\ dm.current_level = LevelOf(dm.current_drawdown, dm.thresholds)
        /\ IF dm.current_level # last.before.current_level
           THEN /\ Len(dm.alert_history) = Len(last.before.alert_history) + 1
                /\ dm.alert_history[Len(dm.alert_history)].level
                      = dm.current_level
                /\ dm.current_recovery_mode = ModeOfLevel(dm.current_level)
           ELSE /\ dm.alert_history = last.before.alert_history
                /\ dm.current_recovery_mode
                      = last.before.current_recovery_mode
        /\ (dm.underwater_start_date # None) <=> RGt(dm.current_drawdown, Zero)
        /\ dm.equity_history[Len(dm.equity_history)][2] = last.equity

\* the update after the one whose warning callback raised
C22_Witness ==
    /\ IsUpdateCall
    /\ \E i \in DOMAIN last.before.invoked :
          /\ last.before.invoked[i].event_type = "drawdown_warning"
          /\ Raises(last.before, last.before.invoked[i])
    /\ last.before.current_level = "warning"
    /\ dm.current_level = "critical"
    /\ Len(dm.alert_history) = 2

\* the events of the latest update_equity call, in the order they occur
EventsOfUpdate ==
    (IF dm.current_peak # last.before.current_peak
     THEN <<"peak_updated">> ELSE <<>>)
    \o (IF /\ dm.current_level # last.before.current_level
           /\ callback_key(dm.current_level) \in EventTypes
        THEN <<callback_key(dm.current_level)>> ELSE <<>>)

\* one call of every callback registered for the events, in registration
\* order
RECURSIVE ExpectedCalls(_, _, _)
ExpectedCalls(callbacks, events, i) ==
    IF i > Len(events) THEN <<>>
    ELSE [j \in DOMAIN callbacks[events[i]] |->
             [event_type |-> events[i],
              callback |-> callbacks[events[i]][j].name]]
         \o ExpectedCalls(callbacks, events, i + 1)

\* C28: every callback registered for an event is invoked once per
\* occurrence of the event, in registration order, also after an earlier
\* callback of the event has raised.
C28_AllCallbacksInvoked ==
    IsUpdateCall =>
        InvokedByCall = ExpectedCalls(last.before.callbacks, EventsOfUpdate, 1)

-----------------------------------------------------------------------------
(* Properties of the monitoring thread                                     *)

\* the loop threads that have not ended
LiveLoops == {i \in DOMAIN threads.loops : threads.loops[i].pc # "exited"}

\* the loop threads inside an iteration of the loop
IteratingLoops ==
    {i \in DOMAIN threads.loops :
        threads.loops[i].pc \notin {"test", "sleeping", "exited"}}

\* C23: at most one monitoring loop runs at any time: start_monitoring
\* while monitoring is active starts no thread, at most one loop started
\* since the latest stop_monitoring is alive, no two loops are inside an
\* iteration, and a loop stopped by stop_monitoring never passes its loop
\* condition again.
C23_OneMonitoringLoop ==
    /\ Cardinality({i \in LiveLoops : ~threads.loops[i].stopped}) <= 1
    /\ Cardinality(IteratingLoops) <= 1
    /\ \A i \in DOMAIN threads.loops : ~threads.loops[i].resumed

\* C27: an alert that update_equity appends while the monitoring thread
\* cleans the alert history is in alert_history once update_equity has
\* returned and the cleanup has finished.
C27_NoAlertLost ==
    (/\ IsUpdateCall
     /\ threads.caller = "ready"
     /\ dm.current_level # last.before.current_level
     /\ \A i \in DOMAIN threads.loops : threads.loops[i].pc # "store"
     /\ last.result.timestamp > now - MaxAlertAge)
    => \E i \in DOMAIN dm.alert_history :
          /\ dm.alert_history[i].level = dm.current_level
          /\ dm.alert_history[i].timestamp = last.result.timestamp

-----------------------------------------------------------------------------
(* Properties of start_recovery_mode and of the recovery records           *)

IsStartCall == last.op = "start_recovery_mode"

\* C25: start_recovery_mode returns True for every known mode and every
\* target, the omitted one included, and when it returns False it has left
\* current_recovery_mode, recovery_history and the recovery targets as
\* they were and has run no recovery_started callback.
C25_StartRecoveryModeResult ==
    IsStartCall =>
        /\ last.mode \in DOMAIN last.before.recovery_strategies
              => last.result = TRUE
        /\ last.result = FALSE
              => /\ dm.current_recovery_mode
                      = last.before.current_recovery_mode
                 /\ dm.recovery_history = last.before.recovery_history
                 /\ dm.recovery_strategies = last.before.recovery_strategies
                 /\ dm.invoked = last.before.invoked

\* C26: a recovery record is finalized at most once: a
\* check_recovery_completion call made when the latest record has an
\* end_time changes no record and runs no recovery_completed callback; no
\* record has both success = True and timeout = True; and the call returns
\* True only when an unfinished recovery exists.
C26_FinalizedOnce ==
    /\ \A i \in DOMAIN dm.recovery_history :
          ~(/\ dm.recovery_history[i].success = Some(TRUE)
            /\ dm.recovery_history[i].timeout = Some(TRUE))
    /\ IsCheckCall =>
          /\ (/\ Len(last.before.recovery_history) > 0
              /\ LatestRecovery(last.before).end_time # None)
                => /\ dm.recovery_history = last.before.recovery_history
                   /\ dm.invoked = last.before.invoked
          /\ last.result = TRUE => HasOpenRecovery(last.before)

-----------------------------------------------------------------------------
(* Properties of a long run of updates                                     *)

\* C24: after k update_equity calls equity_history holds exactly
\* min(k, 1000) entries, the most recent updates in call order, the last
\* one being the latest update.  The k-th call of the run is made at hour
\* k, so the timestamp of an entry is the number of its call.
C24_EquityHistoryBound ==
    IsUpdateCall =>
        /\ Len(dm.equity_history)
              = (IF now < HistoryLimit THEN now ELSE HistoryLimit)
        /\ \A i \in DOMAIN dm.equity_history :
              dm.equity_history[i][1] = now - Len(dm.equity_history) + i
        /\ dm.equity_history[Len(dm.equity_history)] = <<now, last.equity>>
        /\ \A i \in 1..(Len(dm.equity_history) - 1) :
              dm.equity_history[i]
                 = last.before.equity_history[
                      Len(last.before.equity_history)
                         - (Len(dm.equity_history) - 1) + i]

\* the second update after the history has reached its limit
C24_Witness ==
    /\ IsUpdateCall
    /\ now = HistoryLimit + 2
    /\ Len(dm.equity_history) = HistoryLimit
    /\ dm.equity_history[1][1] = 3

\* C29: the max_drawdown update_equity returns is at least
\* current_drawdown and is never smaller than the max_drawdown of the
\* update before, after any number of updates.
C29_MaxDrawdown ==
    IsUpdateCall =>
        /\ RGe(last.result.max_drawdown, dm.current_drawdown)
        /\ RGe(last.result.max_drawdown, calculate_max_drawdown(last.before))

-----------------------------------------------------------------------------
(* The tail of the historical estimator                                    *)

\* C30: in calculate_historical_var the tail {r in R : r <= q} of a
\* non-empty series is never empty, because the percentile q is >= min(R):
\* every result has tail_observations >= 1 and a CVaR that is the mean of
\* the returns not above the computed q, not the fallback to the VaR.
C30_TailNeverEmpty ==
    (IsHistCall /\ Returned) =>
        /\ last.result.additional_stats.tail_observations >= 1
        /\ RGe(Percentile(AsArray(returns),
                          last.result.additional_stats.percentile_used),
               last.result.additional_stats.min_return)
        /\ last.result.cvar_percentage
              = RMul(RAbs(Mean(AtMost(AsArray(returns),
                        MaskBound(AsArray(returns), last.confidence_level,
                            Percentile(AsArray(returns),
                                last.result.additional_stats.percentile_used))))),
                     Rat(100, 1))

\* a percentile strictly between the two smallest returns: the tail is the
\* minimum alone
C30_Witness ==
    /\ IsHistCall /\ Returned
    /\ Len(returns) = MaxLen
    /\ last.result.additional_stats.tail_observations = 1
    /\ RGt(Percentile(AsArray(returns),
                      last.result.additional_stats.percentile_used),
           last.result.additional_stats.min_return)

====
